---- MODULE Spec2Model ----
(***************************************************************************)
(* A model of the command execution pipeline of aiq: the template engine   *)
(* (rendering and parameter validation), the command runner and the        *)
(* history log it records to.                                              *)
(*                                                                         *)
(* Text is modelled as a sequence of tokens.  A token is one of the two    *)
(* brace characters, a whitespace character, or a word (a run of other     *)
(* characters, kept whole).  JavaScript values are tagged records whose    *)
(* payload is always the text String(value) yields.                        *)
(***************************************************************************)
EXTENDS Integers, Sequences, FiniteSets, TLC

VARIABLES
    historyConfig,  \* config.history of the loaded configuration
    historyFile,    \* the persisted history log
    pc,             \* position of the current CommandRunner.run invocation
    caller,         \* who invoked run: the CLI front end or another module
    commandName,    \* run's first argument
    options,        \* run's RunOptions
    stdin,          \* the process input stream
    input,          \* run's local `input`
    values,         \* run's local value map
    prompt,         \* run's local rendered prompt
    response,       \* what provider.executePrompt returned
    loaded,         \* HistoryManager.add's local `history` array
    result,         \* how the run ended: returned text or raised error
    exitCode,       \* exit status set by the CLI front end
    stages,         \* the stages the current run has passed through
    calls,          \* provider.executePrompt calls of the current run
    prevFile,       \* the history log as it was when the current run began
    runs,           \* number of runs started so far
    added,          \* the entries handed to HistoryManager.add, latest first
    callTemplate,   \* the template of a direct TemplateEngine call
    callParams,     \* the parameter definitions of a direct TemplateEngine call
    providerConfig, \* the configuration the provider instance was built with
    backend,        \* what the backend answered to the current run's request
    fetches,        \* network requests the provider has made in this process
    providers,      \* ProviderDiscovery.providers: keys in insertion order
    providerMetadata, \* the metadata the Provider decorator attached to classes
    warnings,       \* the identifiers console.warn was called for
    registered,     \* the register and clear calls made so far, in order
    request,        \* the arguments of the last ProviderDiscovery.get call
    instance,       \* the provider ProviderDiscovery.get constructed last
    configFile,     \* the configuration file on disk
    thisConfig,     \* ConfigManager's private field `config`
    cliConfig,      \* the `config` constant of the CLI entry point
    cpc,            \* position of the current aiq process: start, ready, exited
    op,             \* the last command-management operation and its outcome
    observed,       \* what the last ConfigManager.get or later load yielded
    ops,            \* number of aiq processes started so far
    writers,        \* the processes inside HistoryManager.add, by process
    test,           \* the CommandRunner.testCommand invocation in progress
    replay          \* the replayCommand invocation in progress

vars == <<historyConfig, historyFile, pc, caller, commandName, options, stdin,
          input, values, prompt, response, loaded, result, exitCode, stages,
          calls, prevFile, runs, added, callTemplate, callParams,
          providerConfig, backend, fetches,
          providers, providerMetadata, warnings, registered, request, instance,
          configFile, thisConfig, cliConfig, cpc, op, observed, ops,
          writers, test, replay>>

\* The state of one CommandRunner.run invocation
runVars == <<caller, commandName, options, stdin, input, values, prompt, response,
             result, exitCode, stages, calls, prevFile, runs>>

\* The state used only by direct calls of HistoryManager and TemplateEngine
directVars == <<added, callTemplate, callParams>>

\* The provider instance and its traffic
providerVars == <<providerConfig, backend, fetches>>

\* The process-wide provider registry
registryVars == <<providers, providerMetadata, warnings, registered, request, instance>>

\* The configuration file, its manager and the command-management front end
configVars == <<configFile, thisConfig, cliConfig, cpc, op, observed, ops>>

\* The callers of run other than the CLI front end: test and replay
dialogVars == <<test, replay>>

\* What the specifications of the single run leave alone
otherVars == <<configVars, writers, dialogVars>>

----------------------------------------------------------------------------
(* Bounds of the model *)

MaxRuns == 1          \* runs of CommandRunner.run in one behaviour
MaxCeiling == 2       \* largest configured maxEntries
MaxAdds == 4          \* direct HistoryManager.add calls in one behaviour
MaxTemplateLen == 4   \* tokens of a template handed directly to render
MaxRegisters == 3     \* register, decorator and clear calls in one behaviour
MaxOps == 3           \* aiq processes restarted after the first in one behaviour

----------------------------------------------------------------------------
(* Text *)

Whitespace == {" ", "\n"}

RECURSIVE TrimStart(_)
TrimStart(s) ==
    IF s # <<>> /\ Head(s) \in Whitespace THEN TrimStart(Tail(s)) ELSE s

RECURSIVE TrimEnd(_)
TrimEnd(s) ==
    IF s # <<>> /\ s[Len(s)] \in Whitespace
    THEN TrimEnd(SubSeq(s, 1, Len(s) - 1))
    ELSE s

Trim(s) == TrimEnd(TrimStart(s))

LowerTable ==
    [t \in {"TRUE", "True", "Gemini", "GEMINI", "Y"} |->
        IF t \in {"TRUE", "True"} THEN "true"
        ELSE IF t = "Y" THEN "y" ELSE "gemini"]

ToLowerCase(s) ==
    [i \in 1..Len(s) |-> IF s[i] \in DOMAIN LowerTable THEN LowerTable[s[i]] ELSE s[i]]

RECURSIVE Join(_, _)
Join(list, sep) ==
    IF list = <<>> THEN <<>>
    ELSE IF Len(list) = 1 THEN list[1]
    ELSE list[1] \o <<sep>> \o Join(Tail(list), sep)

Includes(list, s) == \E i \in 1..Len(list) : list[i] = s

----------------------------------------------------------------------------
(* JavaScript values *)

Str(s) == [k |-> "string", v |-> s]
Num(t) == [k |-> "number", v |-> <<t>>]
Bool(b) == [k |-> "boolean", v |-> <<IF b THEN "true" ELSE "false">>]
Undefined == [k |-> "undefined", v |-> <<"undefined">>]
Null == [k |-> "null", v |-> <<"null">>]
NaN == Num("NaN")

StringOf(x) == x.v

Falsy(x) ==
    \/ x \in {Undefined, Null, NaN}
    \/ x = Str(<<>>)
    \/ x = Num("0")
    \/ x = Bool(FALSE)

\* The numeric literals of the model and the number each one parses to.
NumericLiteral ==
    [t \in {"42", "42.0", "50", "7", "0"} |->
        IF t = "42.0" THEN "42" ELSE t]

ToNumber(x) ==
    CASE x.k = "number" -> x
      [] x.k = "boolean" -> IF x = Bool(TRUE) THEN Num("1") ELSE Num("0")
      [] x.k = "null" -> Num("0")
      [] x.k = "undefined" -> NaN
      [] x.k = "string" ->
            LET t == Trim(x.v) IN
            IF t = <<>> THEN Num("0")
            ELSE IF Len(t) = 1 /\ t[1] \in DOMAIN NumericLiteral
                 THEN Num(NumericLiteral[t[1]])
                 ELSE NaN

\* obj[key] of a value map: undefined for a key the map does not hold.
Get(map, key) == IF key \in DOMAIN map THEN map[key] ELSE Undefined

\* { ...map, [key]: value }
Put(map, key, value) ==
    [x \in DOMAIN map \cup {key} |-> IF x = key THEN value ELSE map[x]]

NoValues == [x \in {} |-> Undefined]

----------------------------------------------------------------------------
(* Outcomes of a call: a returned text or a raised error *)

Returned(text) == [ok |-> TRUE, text |-> text, name |-> "", message |-> <<>>, hint |-> <<>>]
UserError(message, hint) ==
    [ok |-> FALSE, text |-> <<>>, name |-> "UserError", message |-> message, hint |-> hint]
Error(message) ==
    [ok |-> FALSE, text |-> <<>>, name |-> "Error", message |-> message, hint |-> <<>>]

----------------------------------------------------------------------------
(* TemplateEngine *)

INPUT == <<"input">>

\* A ParamDef.  An absent default is Undefined, an absent description the
\* empty text; hasChoices tells a declared choices array from an absent one.
ParamDef(type, default, required, description, hasChoices, choices) ==
    [type |-> type, default |-> default, required |-> required,
     description |-> description, hasChoices |-> hasChoices, choices |-> choices]

NoParams == [x \in {} |-> ParamDef("string", Undefined, FALSE, <<>>, FALSE, <<>>)]

\* Position of the first "}" after position p of t, 0 when there is none.
NextClose(t, p) ==
    LET S == {q \in (p + 1)..Len(t) : t[q] = "}"}
    IN IF S = {} THEN 0 ELSE CHOOSE q \in S : \A r \in S : q <= r

\* The matches of /{([^}]+)}/g in t from position i on, left to right.
RECURSIVE Placeholders(_, _)
Placeholders(t, i) ==
    IF i > Len(t) THEN <<>>
    ELSE LET q == NextClose(t, i) IN
         IF t[i] = "{" /\ q > i + 1
         THEN <<[from |-> i, to |-> q, key |-> SubSeq(t, i + 1, q - 1)]>>
                  \o Placeholders(t, q + 1)
         ELSE Placeholders(t, i + 1)

\* template.includes('{input}')
HasInputPlaceholder(t) ==
    \E i \in 1..Len(t) :
        i + 2 <= Len(t) /\ t[i] = "{" /\ t[i + 1] = "input" /\ t[i + 2] = "}"

SubstituteDefaultFirst(key, vals, params) ==
    IF key \in DOMAIN params /\ params[key].default # Undefined
    THEN Returned(StringOf(params[key].default))
    ELSE IF Get(vals, key) # Undefined /\ Get(vals, key) # Null
    THEN Returned(StringOf(Get(vals, key)))
    ELSE IF key = INPUT /\ Falsy(Get(vals, INPUT))
    THEN UserError(<<"No input provided">>, <<>>)
    ELSE IF key \in DOMAIN params /\ params[key].required
    THEN UserError(<<"Required parameter missing: ">> \o key,
                   <<"Use --">> \o key \o <<" to provide a value">>)
    ELSE Returned(<<>>)

\* The replace callback of render: what one placeholder is replaced by.
Substitute(key, vals, params) ==
    IF Get(vals, key) # Undefined /\ Get(vals, key) # Null
    THEN Returned(StringOf(Get(vals, key)))
    ELSE IF key \in DOMAIN params /\ params[key].default # Undefined
    THEN Returned(StringOf(params[key].default))
    ELSE IF key = INPUT
    THEN IF Falsy(Get(vals, INPUT))
         THEN UserError(<<"No input provided">>, <<>>)
         ELSE Returned(StringOf(Get(vals, INPUT)))
    ELSE IF key \in DOMAIN params /\ params[key].required
    THEN UserError(<<"Required parameter missing: ">> \o key,
                   <<"Use --">> \o key \o <<" to provide a value">>)
    ELSE Returned(<<>>)

\* The text of t from position i on, with the matches ms[m..] replaced.
RECURSIVE Replaced(_, _, _, _, _)
Replaced(t, ms, subs, i, m) ==
    IF i > Len(t) THEN <<>>
    ELSE IF m <= Len(ms) /\ ms[m].from = i
    THEN subs[m].text \o Replaced(t, ms, subs, ms[m].to + 1, m + 1)
    ELSE <<t[i]>> \o Replaced(t, ms, subs, i + 1, m)

\* template.replace(/{([^}]+)}/g, callback): the callback runs match by
\* match, so the first placeholder whose callback throws ends the call.
ReplaceAll(t, vals, params) ==
    LET ms == Placeholders(t, 1)
        subs == [m \in 1..Len(ms) |-> Substitute(ms[m].key, vals, params)]
        failing == {m \in 1..Len(ms) : ~subs[m].ok}
    IN IF failing # {}
       THEN subs[CHOOSE m \in failing : \A n \in failing : m <= n]
       ELSE Returned(Replaced(t, ms, subs, 1, 1))

\* The appended form used when the template has no {input} placeholder.
AppendInput(text, vals) ==
    Trim(text) \o <<"\n", "\n">> \o StringOf(Get(vals, INPUT))

renderAppendingUntrimmed(template, vals, params) ==
    LET r == ReplaceAll(template, vals, params) IN
    IF ~r.ok THEN r
    ELSE IF ~HasInputPlaceholder(template) /\ ~Falsy(Get(vals, INPUT))
    THEN Returned(Trim(r.text \o <<"\n", "\n">> \o StringOf(Get(vals, INPUT))))
    ELSE Returned(Trim(r.text))

render(template, vals, params) ==
    LET r == ReplaceAll(template, vals, params) IN
    IF ~r.ok THEN r
    ELSE IF ~HasInputPlaceholder(template) /\ ~Falsy(Get(vals, INPUT))
    THEN Returned(Trim(AppendInput(r.text, vals)))
    ELSE Returned(Trim(r.text))

\* extractParams: the distinct placeholder keys in order of first occurrence.
RECURSIVE Distinct(_)
Distinct(s) ==
    IF s = <<>> THEN <<>>
    ELSE LET init == Distinct(SubSeq(s, 1, Len(s) - 1))
             last == s[Len(s)]
         IN IF Includes(init, last) THEN init ELSE Append(init, last)

extractParams(template) ==
    LET ms == Placeholders(template, 1)
    IN Distinct([m \in 1..Len(ms) |-> ms[m].key])

ValidateOneWithoutRequired(paramName, vals, def) ==
    LET supplied == Get(vals, paramName)
        value == IF supplied \in {Undefined, Null} THEN def.default ELSE supplied
    IN IF value # Undefined /\ def.type = "number" /\ ToNumber(value) = NaN
       THEN [outcome |->
                UserError(<<"Parameter '">> \o paramName \o <<"' must be a number">>,
                          <<"You provided: ">> \o StringOf(value)),
             values |-> vals]
       ELSE [outcome |-> Returned(<<>>), values |-> vals]

ValidateOneWithoutCoercion(paramName, vals, def) ==
    LET supplied == Get(vals, paramName)
        value == IF supplied \in {Undefined, Null} THEN def.default ELSE supplied
    IN IF def.required /\ value = Undefined
       THEN [outcome |->
                UserError(<<"Required parameter missing: ">> \o paramName,
                          IF def.description # <<>> THEN def.description
                          ELSE <<"Provide --">> \o paramName),
             values |-> vals]
       ELSE IF value # Undefined /\ def.type = "number" /\ ToNumber(value) = NaN
       THEN [outcome |->
                UserError(<<"Parameter '">> \o paramName \o <<"' must be a number">>,
                          <<"You provided: ">> \o StringOf(value)),
             values |-> vals]
       ELSE IF value # Undefined /\ def.hasChoices
                  /\ ~Includes(def.choices, StringOf(value))
       THEN [outcome |->
                UserError(<<"Invalid value for '">> \o paramName \o <<"': ">>
                              \o StringOf(value),
                          <<"Available choices: ">> \o Join(def.choices, ", ")),
             values |-> vals]
       ELSE [outcome |-> Returned(<<>>), values |-> vals]

ValidateOneWithoutChoices(paramName, vals, def) ==
    LET supplied == Get(vals, paramName)
        value == IF supplied \in {Undefined, Null} THEN def.default ELSE supplied
        num == ToNumber(value)
        coerced ==
            IF def.type = "number" THEN Put(vals, paramName, num)
            ELSE IF def.type = "boolean" /\ value.k = "string"
            THEN Put(vals, paramName, Bool(ToLowerCase(value.v) = <<"true">>))
            ELSE vals
    IN IF def.required /\ value = Undefined
       THEN [outcome |->
                UserError(<<"Required parameter missing: ">> \o paramName,
                          IF def.description # <<>> THEN def.description
                          ELSE <<"Provide --">> \o paramName),
             values |-> vals]
       ELSE IF value = Undefined
       THEN [outcome |-> Returned(<<>>), values |-> vals]
       ELSE IF def.type = "number" /\ num = NaN
       THEN [outcome |->
                UserError(<<"Parameter '">> \o paramName \o <<"' must be a number">>,
                          <<"You provided: ">> \o StringOf(value)),
             values |-> vals]
       ELSE [outcome |-> Returned(<<>>), values |-> coerced]

\* One iteration of validateParams' loop for a parameter that has a
\* definition: the outcome of the checks and the value map they leave.
ValidateOne(paramName, vals, def) ==
    LET supplied == Get(vals, paramName)
        value == IF supplied \in {Undefined, Null} THEN def.default ELSE supplied
        num == ToNumber(value)
        coerced ==
            IF def.type = "number" THEN Put(vals, paramName, num)
            ELSE IF def.type = "boolean" /\ value.k = "string"
            THEN Put(vals, paramName, Bool(ToLowerCase(value.v) = <<"true">>))
            ELSE vals
    IN IF def.required /\ value = Undefined
       THEN [outcome |->
                UserError(<<"Required parameter missing: ">> \o paramName,
                          IF def.description # <<>> THEN def.description
                          ELSE <<"Provide --">> \o paramName),
             values |-> vals]
       ELSE IF value = Undefined
       THEN [outcome |-> Returned(<<>>), values |-> vals]
       ELSE IF def.type = "number" /\ num = NaN
       THEN [outcome |->
                UserError(<<"Parameter '">> \o paramName \o <<"' must be a number">>,
                          <<"You provided: ">> \o StringOf(value)),
             values |-> vals]
       ELSE IF def.hasChoices /\ ~Includes(def.choices, StringOf(value))
       THEN [outcome |->
                UserError(<<"Invalid value for '">> \o paramName \o <<"': ">>
                              \o StringOf(value),
                          <<"Available choices: ">> \o Join(def.choices, ", ")),
             values |-> coerced]
       ELSE [outcome |-> Returned(<<>>), values |-> coerced]

\* validateParams' loop over the remaining template parameters.
RECURSIVE ValidateFrom(_, _, _)
ValidateFrom(names, vals, params) ==
    IF names = <<>> THEN [outcome |-> Returned(<<>>), values |-> vals]
    ELSE IF Head(names) = INPUT \/ Head(names) \notin DOMAIN params
    THEN ValidateFrom(Tail(names), vals, params)
    ELSE LET one == ValidateOne(Head(names), vals, params[Head(names)]) IN
         IF ~one.outcome.ok THEN one
         ELSE ValidateFrom(Tail(names), one.values, params)

\* validateParams(template, values, params): how the call ends and the value
\* map as the call leaves it (the map is mutated in place).
validateParams(template, vals, params) ==
    ValidateFrom(extractParams(template), vals, params)

----------------------------------------------------------------------------
(* The loaded configuration *)

CommandDef(name, promptText, params) ==
    [name |-> name, prompt |-> promptText, params |-> params]

\* "Summarize in {maxWords} words:\n\n{input}"
Summarize ==
    CommandDef("summarize",
        <<"Summarize in", " ", "{", "maxWords", "}", " ", "words:", "\n", "\n",
          "{", "input", "}">>,
        [x \in {<<"maxWords">>} |->
            ParamDef("number", Num("50"), FALSE, <<>>, FALSE, <<>>)])

\* "Write a {style} commit message " - no {input}; `scope` is declared
\* required but the template does not refer to it.
Commit ==
    CommandDef("commit",
        <<"Write a", " ", "{", "style", "}", " ", "commit message", " ">>,
        [x \in {<<"style">>, <<"scope">>} |->
            IF x = <<"style">>
            THEN ParamDef("string", Undefined, FALSE, <<>>, TRUE,
                          << <<"conventional">>, <<"simple">> >>)
            ELSE ParamDef("string", Undefined, TRUE, <<>>, FALSE, <<>>)])

\* "Translate {count} lines to {to}:\n\n{input}"
Translate ==
    CommandDef("translate",
        <<"Translate", " ", "{", "count", "}", " ", "lines to", " ",
          "{", "to", "}", ":", "\n", "\n", "{", "input", "}">>,
        [x \in {<<"count">>, <<"to">>} |->
            IF x = <<"count">>
            THEN ParamDef("number", Undefined, FALSE, <<>>, FALSE, <<>>)
            ELSE ParamDef("string", Undefined, TRUE, <<"Target language">>,
                          FALSE, <<>>)])

\* "Pick {kind} {n}" - no {input}; kind is required, n a number
\* restricted to the choices 42 and 7.
Pick ==
    CommandDef("pick",
        <<"Pick", " ", "{", "kind", "}", " ", "{", "n", "}">>,
        [x \in {<<"kind">>, <<"n">>} |->
            IF x = <<"kind">>
            THEN ParamDef("string", Undefined, TRUE, <<>>, FALSE, <<>>)
            ELSE ParamDef("number", Undefined, FALSE, <<>>, TRUE,
                          << <<"42">>, <<"7">> >>)])

\* config.commands
Commands == <<Summarize, Commit, Translate, Pick>>

CommandNames == {Commands[i].name : i \in 1..Len(Commands)}

\* config.commands.find((c) => c.name === name); the caller tests Found first
Found(name) == \E i \in 1..Len(Commands) : Commands[i].name = name
Find(name) ==
    Commands[CHOOSE i \in 1..Len(Commands) :
                /\ Commands[i].name = name
                /\ \A j \in 1..(i - 1) : Commands[j].name # name]

----------------------------------------------------------------------------
(* Inputs the runs are drawn from *)

One(key, value) == [x \in {key} |-> value]

\* options.params offered for each command name
ParamsFor(name) ==
    CASE name = "summarize" ->
            {NoValues, One(<<"maxWords">>, Str(<<"42">>)),
             One(<<"maxWords">>, Str(<<"abc">>))}
      [] name = "commit" ->
            {NoValues, One(<<"style">>, Str(<<"simple">>)),
             One(<<"style">>, Str(<<"fancy">>))}
      [] name = "translate" ->
            {One(<<"count">>, Str(<<"7">>)),
             Put(One(<<"count">>, Str(<<"7">>)), <<"to">>, Str(<<"es">>)),
             One(<<"to">>, Str(<<"es">>)),
             One(<<"count">>, Str(<<"abc">>))}
      [] name = "pick" ->
            {Put(One(<<"kind">>, Str(<<"a">>)), <<"n">>, v) :
                v \in {Str(<<"42">>), Str(<<"42.0">>), Str(<<"abc">>), Str(<<"50">>)}}
                \cup {One(<<"n">>, Str(<<"50">>))}
      [] OTHER -> {NoValues}

RequestedNames == CommandNames \cup {"frobnicate"}

ExplicitInputs == {Undefined, Str(<<"text">>)}

RunOptions ==
    UNION {{[name |-> n, dryRun |-> d, params |-> p, input |-> i] :
                d \in BOOLEAN, p \in ParamsFor(n), i \in ExplicitInputs} :
           n \in RequestedNames}

Streams ==
    {[isTTY |-> TRUE, data |-> <<>>, drained |-> FALSE],
     [isTTY |-> FALSE, data |-> <<" ", "piped", "\n">>, drained |-> FALSE],
     [isTTY |-> FALSE, data |-> <<"\n">>, drained |-> FALSE]}

HistoryConfigs ==
    {[enabled |-> FALSE, maxEntries |-> 1]}
        \cup {[enabled |-> TRUE, maxEntries |-> m] : m \in 0..MaxCeiling}

----------------------------------------------------------------------------
(* HistoryManager *)

HistoryEntry(id, command, params, promptText, responseText) ==
    [id |-> id, timestamp |-> id, command |-> command, params |-> params,
     prompt |-> promptText, response |-> responseText]

PrependDroppingNewest(history, entry, maxEntries) ==
    LET h == <<entry>> \o history
    IN IF Len(h) > maxEntries THEN SubSeq(h, Len(h) - maxEntries + 1, Len(h)) ELSE h

\* history.unshift(newEntry), then the splice that limits the size
Prepend(history, entry, maxEntries) ==
    LET h == <<entry>> \o history
    IN IF Len(h) > maxEntries THEN SubSeq(h, 1, maxEntries) ELSE h

LoadHistoryAnew(file) == <<>>

\* What a successful HistoryManager.load returns for the file as it is
\* (the empty log when the file does not exist yet).
LoadHistory(file) == IF file.exists THEN file.log ELSE <<>>

\* What HistoryManager.load returns when reading or parsing fails for
\* another reason: the error is logged and the empty log returned.
LoadHistoryFailed(file) == <<>>

\* The file as HistoryManager.save leaves it.
SaveHistory(history) == [exists |-> TRUE, log |-> history]

\* Entries that earlier invocations of the program have recorded, most
\* recent first.
OlderLog ==
    <<HistoryEntry(2, "commit", One(<<"style">>, Str(<<"simple">>)),
          render(Commit.prompt, Put(One(<<"style">>, Str(<<"simple">>)), INPUT, Str(<<>>)),
                 Commit.params).text,
          <<"reply">>),
      HistoryEntry(1, "summarize", NoValues,
          render(Summarize.prompt, One(INPUT, Str(<<"text">>)), Summarize.params).text,
          <<"reply">>)>>

\* The history files a process can find when it starts: none, or a log the
\* program wrote under the same configuration.
HistoryFiles(cfg) ==
    {[exists |-> FALSE, log |-> <<>>]}
        \cup {[exists |-> TRUE, log |-> SubSeq(OlderLog, 1, n)] :
                 n \in {m \in 0..Len(OlderLog) : cfg.enabled => m <= cfg.maxEntries}}

----------------------------------------------------------------------------
(* GeminiProvider *)

\* A GeminiProviderConfig; an absent field is Undefined.
ProviderConfig(apiKey, modelName) ==
    [name |-> "gemini", apiKey |-> apiKey, model |-> modelName]

\* The configuration the decorator declares as default (lines 15-21).
DefaultProviderConfig ==
    ProviderConfig(Str(<<"${", "GEMINI_API_KEY", "}">>), Str(<<"gemini-2.5-flash">>))

\* The provider configurations a process can be started with: a usable
\* one (defined first), the credential absent, empty or still a
\* placeholder, the model absent.
UsableProviderConfig ==
    ProviderConfig(Str(<<"secret">>), Str(<<"gemini-2.5-flash">>))

ProviderConfigs ==
    {UsableProviderConfig,
     ProviderConfig(Undefined, Str(<<"gemini-2.5-flash">>)),
     ProviderConfig(Str(<<>>), Str(<<"gemini-2.5-flash">>)),
     DefaultProviderConfig,
     ProviderConfig(Str(<<"secret">>), Undefined)}

\* apiKey.startsWith('${')
StartsWith(s, token) == s # <<>> /\ Head(s) = token

\* validateConfig, lines 25-39
validateConfig(cfg) ==
    IF Falsy(cfg.apiKey) \/ StartsWith(StringOf(cfg.apiKey), "${")
    THEN UserError(<<"Gemini API key not configured">>,
                   <<"Set the GEMINI_API_KEY environment variable or add it to your config file.">>)
    ELSE IF Falsy(cfg.model)
    THEN UserError(<<"Gemini model not specified in config">>,
                   <<"Add a model like \"gemini-1.5-pro\" to your provider config">>)
    ELSE Returned(<<>>)

\* The body of an HTTP response: a completion, a document without
\* candidates, a structured error, or text that is no JSON document.
Candidates(text) == [kind |-> "candidates", text |-> text, code |-> 0]
NoCandidates == [kind |-> "empty", text |-> <<>>, code |-> 0]
ErrorBody(message, code) == [kind |-> "error", text |-> message, code |-> code]
NotJson == [kind |-> "text", text |-> <<"<html>">>, code |-> 0]
\* A JSON document whose first candidate carries no content.
NoContent == [kind |-> "malformed", text |-> <<>>, code |-> 0]

\* What fetch yields: a response with a status and a body, or a rejection
\* with an error that carries a code or none.
HttpAnswer(status, body) ==
    [kind |-> "http", status |-> status, body |-> body, code |-> "", message |-> <<>>]
TransportFailure(code, message) ==
    [kind |-> "transport", status |-> 0, body |-> NoCandidates, code |-> code,
     message |-> message]
NoAnswer == [kind |-> "none", status |-> 0, body |-> NoCandidates, code |-> "",
             message |-> <<>>]

\* response.ok
Ok(status) == status >= 200 /\ status <= 299

\* getErrorHint, lines 156-167
getErrorHint(code) ==
    CASE code = 400 -> <<"Check your prompt format">>
      [] code = 401 -> <<"Verify your API key">>
      [] code = 403 -> <<"Check API key permissions">>
      [] code = 404 -> <<"Verify the model name">>
      [] code = 429 -> <<"You're sending too many requests. Wait a bit">>
      [] code = 500 -> <<"Gemini is having issues. Try again later">>
      [] OTHER -> <<"Try again or check your configuration">>

\* The switch of handleErrorResponse, lines 110-140: the default message
\* and hint of a status.
StatusDefault(cfg, status) ==
    CASE status = 400 ->
            [message |-> <<"Invalid request to Gemini">>,
             hint |-> <<"Check your model name and parameters">>]
      [] status = 401 ->
            [message |-> <<"Invalid API key">>,
             hint |-> <<"Check your GEMINI_API_KEY environment variable">>]
      [] status = 403 ->
            [message |-> <<"Access forbidden">>,
             hint |-> <<"Ensure your API key has the necessary permissions">>]
      [] status = 404 ->
            [message |-> <<"Model not found">>,
             hint |-> <<"Model '">> \o StringOf(cfg.model)
                         \o <<"' may not exist. Try 'gemini-2.0-flash'">>]
      [] status = 429 ->
            [message |-> <<"Rate limit exceeded">>,
             hint |-> <<"Wait a moment and try again">>]
      [] status \in {500, 502, 503} ->
            [message |-> <<"Gemini service error">>,
             hint |-> <<"The service may be temporarily down. Try again later">>]
      [] OTHER ->
            [message |-> <<"HTTP ", ToString(status), " error">>, hint |-> <<>>]

handleErrorResponseKeepingDefault(cfg, status, body) ==
    UserError(StatusDefault(cfg, status).message, StatusDefault(cfg, status).hint)

\* handleErrorResponse, lines 108-154: the message of a structured error
\* body replaces the default message; the hint stays.
handleErrorResponse(cfg, status, body) ==
    LET d == StatusDefault(cfg, status)
    IN UserError(IF body.kind = "error" /\ body.text # <<>> THEN body.text
                 ELSE d.message,
                 d.hint)

\* executePrompt whose catch block raises what it caught again.
executePromptRaisingAgain(cfg, answer) ==
    IF answer.kind = "transport"
    THEN Error(answer.message)
    ELSE IF ~Ok(answer.status)
    THEN handleErrorResponse(cfg, answer.status, answer.body)
    ELSE IF answer.body.kind = "text"
    THEN Error(<<"Unexpected token">>)
    ELSE IF answer.body.kind = "error"
    THEN UserError(<<"Gemini API error: ">> \o answer.body.text,
                   getErrorHint(answer.body.code))
    ELSE IF answer.body.kind = "empty"
    THEN UserError(<<"No response from Gemini">>, <<"Try rephrasing your prompt">>)
    ELSE IF answer.body.kind = "malformed"
    THEN Error(<<"Cannot read properties of undefined">>)
    ELSE Returned(Trim(answer.body.text))

\* executePrompt, lines 41-106, for what fetch yielded.
executePrompt(cfg, answer) ==
    IF answer.kind = "transport"
    THEN IF answer.code = "ECONNREFUSED"
         THEN UserError(<<"Cannot connect to Gemini API">>,
                        <<"Check your internet connection">>)
         ELSE IF answer.code = "ETIMEDOUT"
         THEN UserError(<<"Request to Gemini timed out">>, <<"Try again in a moment">>)
         ELSE UserError(<<"API request failed: ">> \o answer.message,
                        <<"Check your configuration and try again">>)
    ELSE IF ~Ok(answer.status)
    THEN handleErrorResponse(cfg, answer.status, answer.body)
    ELSE IF answer.body.kind = "text"
    THEN UserError(<<"API request failed: ">> \o <<"Unexpected token">>,
                   <<"Check your configuration and try again">>)
    ELSE IF answer.body.kind = "error"
    THEN UserError(<<"Gemini API error: ">> \o answer.body.text,
                   getErrorHint(answer.body.code))
    ELSE IF answer.body.kind = "empty"
    THEN UserError(<<"No response from Gemini">>, <<"Try rephrasing your prompt">>)
    ELSE IF answer.body.kind = "malformed"
    THEN UserError(<<"API request failed: ">> \o <<"Cannot read properties of undefined">>,
                   <<"Check your configuration and try again">>)
    ELSE Returned(Trim(answer.body.text))

\* The codes a structured error carries and the statuses of failed
\* responses (a failed response's structured error carries its status).
ErrorCodes == {401, 404, 429, 500, 503}
ErrorStatuses == {401, 404, 429, 503}

\* What the backend can answer to a request.
BackendAnswers ==
    {HttpAnswer(200, Candidates(<<" ", "reply", "\n">>)),
     HttpAnswer(200, NoCandidates),
     HttpAnswer(200, NotJson),
     HttpAnswer(200, NoContent)}
        \cup {HttpAnswer(200, ErrorBody(<<"backend says no">>, c)) : c \in ErrorCodes}
        \cup {HttpAnswer(st, NotJson) : st \in ErrorStatuses}
        \cup {HttpAnswer(st, ErrorBody(<<"backend says no">>, st)) : st \in ErrorStatuses}
        \cup {TransportFailure("ECONNREFUSED", <<"connect ECONNREFUSED">>),
              TransportFailure("ETIMEDOUT", <<"connect ETIMEDOUT">>),
              TransportFailure("", <<"fetch failed">>)}

\* What provider.executePrompt can return.
Responses ==
    {executePrompt(UsableProviderConfig, a).text :
        a \in {b \in BackendAnswers : executePrompt(UsableProviderConfig, b).ok}}

----------------------------------------------------------------------------
(* ConfigManager *)

\* A command of a configuration document, a configuration (its provider
\* section present or not) and the absence of one (undefined, null).
ConfigCommand(name, promptText) == [name |-> name, prompt |-> promptText]
Config(hasProvider, commands) ==
    [present |-> TRUE, provider |-> hasProvider, commands |-> commands]
NoConfig == [present |-> FALSE, provider |-> FALSE, commands |-> <<>>]

\* The configuration file: missing, text that is no JSON, or a document.
ConfigDocument(doc) == [exists |-> TRUE, json |-> TRUE, doc |-> doc]
NotJsonConfig == [exists |-> TRUE, json |-> FALSE, doc |-> NoConfig]
MissingConfig == [exists |-> FALSE, json |-> FALSE, doc |-> NoConfig]

\* process.env[varName] || defaultVal || '' for the references a document
\* makes; any other token is no reference.
ResolveReference(token) ==
    CASE token = "${AIQ_STYLE:-brief}" -> <<"brief">>
      [] token = "${AIQ_UNSET}" -> <<>>
      [] OTHER -> <<token>>

RECURSIVE ResolveText(_)
ResolveText(s) ==
    IF s = <<>> THEN <<>> ELSE ResolveReference(Head(s)) \o ResolveText(Tail(s))

\* resolveEnvVars, lines 27-49: every string of the document is resolved.
resolveEnvVars(doc) ==
    [doc EXCEPT !.commands =
        [i \in 1..Len(doc.commands) |->
            ConfigCommand(doc.commands[i].name, ResolveText(doc.commands[i].prompt))]]

\* validate, lines 105-119: the commands in order.
RECURSIVE ValidateCommands(_, _)
ValidateCommands(commands, i) ==
    IF i > Len(commands) THEN Returned(<<>>)
    ELSE IF commands[i].name = "" \/ commands[i].prompt = <<>>
    THEN UserError(<<"Invalid command configuration">>,
                   <<"Each command must have a name and prompt">>)
    ELSE IF \E j \in 1..(i - 1) : commands[j].name = commands[i].name
    THEN UserError(<<"Duplicate command name: ", commands[i].name>>,
                   <<"Command names must be unique">>)
    ELSE ValidateCommands(commands, i + 1)

\* validate, lines 99-143, for commands that declare no parameters.
validate(cfg) ==
    IF ~cfg.provider
    THEN UserError(<<"Provider not specified in config">>,
                   <<"Add a provider configuration.">>)
    ELSE ValidateCommands(cfg.commands, 1)

\* load, lines 51-76: what it returns and what it leaves in the field
\* `config`.  The field is assigned before validate is called.
load(file, cached) ==
    IF cached.present THEN [returned |-> cached, config |-> cached]
    ELSE IF ~file.exists \/ ~file.json THEN [returned |-> NoConfig, config |-> cached]
    ELSE LET parsed == resolveEnvVars(file.doc)
         IN IF validate(parsed).ok
            THEN [returned |-> parsed, config |-> parsed]
            ELSE [returned |-> NoConfig, config |-> parsed]

\* get, lines 159-161
get(cached) == cached

\* save, lines 78-88: what the file holds afterwards.
SaveConfig(cfg) == ConfigDocument(cfg)

HasCommand(cfg, name) == \E i \in 1..Len(cfg.commands) : cfg.commands[i].name = name
IndexOfCommand(cfg, name) ==
    CHOOSE i \in 1..Len(cfg.commands) : cfg.commands[i].name = name

AlreadyExists(name) ==
    UserError(<<"Command '", name, "' already exists">>,
              <<"Use \"aiq edit\" to modify it">>)

addCommandUnchecked(command, cfg) ==
    [outcome |-> Returned(<<>>),
     config |-> [cfg EXCEPT !.commands = Append(@, command)],
     pushed |-> TRUE]

\* addCommand, lines 145-155: the outcome of the duplicate check and the
\* configuration object afterwards; save follows when the command was pushed.
addCommand(command, cfg) ==
    IF HasCommand(cfg, command.name)
    THEN [outcome |-> AlreadyExists(command.name), config |-> cfg, pushed |-> FALSE]
    ELSE [outcome |-> Returned(<<>>),
          config |-> [cfg EXCEPT !.commands = Append(@, command)],
          pushed |-> TRUE]

\* No command-management operation yet, nothing read back yet.
NoOp == [kind |-> "none", name |-> "", newName |-> "", outcome |-> Returned(<<>>),
         before |-> <<>>, beforeFile |-> MissingConfig]
NotObserved == [seen |-> FALSE, by |-> "", value |-> NoConfig]

\* A process that never touches its configuration file.
NoConfigManager ==
    /\ configFile = MissingConfig
    /\ thisConfig = NoConfig
    /\ cliConfig = NoConfig
    /\ cpc = "start"
    /\ op = NoOp
    /\ observed = NotObserved
    /\ ops = 0

\* No process inside HistoryManager.add.
NoWriters == writers = <<>>

\* No test and no replay in progress.
NoTest == [pc |-> "none", name |-> "", input |-> <<>>, shown |-> <<>>,
           answer |-> <<>>, outcome |-> Returned(<<>>)]
NoReplay == [pc |-> "none", id |-> 0, found |-> FALSE, command |-> "",
             params |-> NoValues, prompt |-> <<>>, outcome |-> Returned(<<>>)]
NoDialog ==
    /\ test = NoTest
    /\ replay = NoReplay

----------------------------------------------------------------------------
(* ProviderDiscovery *)

\* The provider classes of the model.
ProviderClasses == {"GeminiProvider", "MockProvider"}

\* What the Provider decorator attaches to a class, and the answer of the
\* WeakMap for a class it holds nothing for.
Metadata(providerName, displayName, defaultConfig) ==
    [present |-> TRUE, providerName |-> providerName, displayName |-> displayName,
     defaultConfig |-> defaultConfig]
UndefinedMetadata ==
    [present |-> FALSE, providerName |-> <<>>, displayName |-> <<>>,
     defaultConfig |-> NoValues]
NoMetadata == [c \in {} |-> UndefinedMetadata]
MetadataOf(metadata, class) ==
    IF class \in DOMAIN metadata THEN metadata[class] ELSE UndefinedMetadata

\* Map.prototype.has, get and set on the providers map, whose keys keep
\* their insertion order; get yields "" for undefined.
MapHas(map, key) == \E i \in 1..Len(map) : map[i].key = key
MapGet(map, key) ==
    IF MapHas(map, key)
    THEN map[CHOOSE i \in 1..Len(map) : map[i].key = key].class
    ELSE ""
MapSetKeepingFirst(map, key, class) ==
    IF MapHas(map, key) THEN map ELSE Append(map, [key |-> key, class |-> class])
MapSet(map, key, class) ==
    IF MapHas(map, key)
    THEN [i \in 1..Len(map) |->
             IF map[i].key = key THEN [key |-> key, class |-> class] ELSE map[i]]
    ELSE Append(map, [key |-> key, class |-> class])
MapKeys(map) == [i \in 1..Len(map) |-> map[i].key]

\* The identifiers providers register under and callers ask for.
RegisteredNames == {<<"gemini">>, <<"Gemini">>, <<"openai">>}
RequestedIds == {<<"gemini">>, <<"GEMINI">>, <<"openai">>}

\* The default configuration of the bundled provider as a key-value map.
GeminiDefaults ==
    Put(Put(One(<<"name">>, Str(<<DefaultProviderConfig.name>>)),
            <<"apiKey">>, DefaultProviderConfig.apiKey),
        <<"model">>, DefaultProviderConfig.model)

\* The uses of the Provider decorator: the bundled provider, and a second
\* class declaring a name that differs from it in letter case only, or
\* another name.
Decorations ==
    {[class |-> "GeminiProvider", displayName |-> <<"Gemini">>,
      defaultConfig |-> GeminiDefaults],
     [class |-> "MockProvider", displayName |-> <<"Mock">>,
      defaultConfig |-> Put(One(<<"name">>, Str(<<"Gemini">>)),
                            <<"model">>, Str(<<"mock-1">>))],
     [class |-> "MockProvider", displayName |-> <<"Mock">>,
      defaultConfig |-> Put(One(<<"name">>, Str(<<"openai">>)),
                            <<"apiKey">>, Str(<<"k">>))]}

\* The partial configurations handed to get: none, a credential, a model
\* together with another name, a credential that is present but undefined.
PartialConfigs ==
    {NoValues,
     One(<<"apiKey">>, Str(<<"secret">>)),
     Put(One(<<"name">>, Str(<<"other">>)), <<"model">>, Str(<<"m2">>)),
     One(<<"apiKey">>, Undefined)}

\* The arguments of a get call, with the registry as the call found it.
Request(id, config) ==
    [made |-> TRUE, id |-> id, config |-> config,
     providers |-> providers, metadata |-> providerMetadata, instance |-> instance]
NoRequest ==
    [made |-> FALSE, id |-> <<>>, config |-> NoValues,
     providers |-> <<>>, metadata |-> NoMetadata, instance |-> <<>>]

\* register, lines 31-40: warn when the name as given is a key of the map,
\* then store the class under the lower-cased name.  The call is logged
\* with whether its lower-cased name was a key already.
register(name, class) ==
    /\ warnings' = IF MapHas(providers, name) THEN Append(warnings, name) ELSE warnings
    /\ providers' = MapSet(providers, ToLowerCase(name), class)
    /\ registered' = Append(registered,
                            [op |-> "register", name |-> name, class |-> class,
                             collided |-> MapHas(providers, ToLowerCase(name))])

\* ProviderDiscovery.register called directly.
Register ==
    /\ pc = "registry"
    /\ runs < MaxRegisters
    /\ runs' = runs + 1
    /\ \E name \in RegisteredNames, class \in ProviderClasses : register(name, class)
    /\ UNCHANGED <<providerMetadata, request, instance, providerVars, otherVars>>
    /\ UNCHANGED <<historyConfig, historyFile, pc, caller, commandName, options, stdin,
                   input, values, prompt, response, loaded, result, exitCode, stages,
                   calls, prevFile, directVars>>

\* The Provider decorator, lines 106-121: attach the metadata to the class
\* and register it under the name its default configuration declares.
Provider ==
    /\ pc = "registry"
    /\ runs < MaxRegisters
    /\ runs' = runs + 1
    /\ \E d \in Decorations :
        /\ providerMetadata' =
              [c \in DOMAIN providerMetadata \cup {d.class} |->
                  IF c = d.class
                  THEN Metadata(StringOf(d.defaultConfig[<<"name">>]), d.displayName,
                                d.defaultConfig)
                  ELSE providerMetadata[c]]
        /\ register(StringOf(d.defaultConfig[<<"name">>]), d.class)
    /\ UNCHANGED <<request, instance, providerVars, otherVars>>
    /\ UNCHANGED <<historyConfig, historyFile, pc, caller, commandName, options, stdin,
                   input, values, prompt, response, loaded, result, exitCode, stages,
                   calls, prevFile, directVars>>

\* clear, lines 93-95
Clear ==
    /\ pc = "registry"
    /\ runs < MaxRegisters
    /\ runs' = runs + 1
    /\ providers' = <<>>
    /\ registered' = Append(registered,
                            [op |-> "clear", name |-> <<>>, class |-> "",
                             collided |-> FALSE])
    /\ UNCHANGED <<providerMetadata, warnings, request, instance, providerVars, otherVars>>
    /\ UNCHANGED <<historyConfig, historyFile, pc, caller, commandName, options, stdin,
                   input, values, prompt, response, loaded, result, exitCode, stages,
                   calls, prevFile, directVars>>

\* getClass, has, list and getMetadata, lines 72-100
getClass(id) == MapGet(providers, ToLowerCase(id))
has(id) == MapHas(providers, ToLowerCase(id))
list == MapKeys(providers)
getMetadata(id) ==
    IF getClass(id) # "" THEN MetadataOf(providerMetadata, getClass(id))
    ELSE UndefinedMetadata

ProviderNotFoundBare(id, keys) ==
    Error(<<"Provider \"">> \o id \o <<"\" not found.">>)

\* The error of get, lines 51-54
ProviderNotFound(id, keys) ==
    Error(<<"Provider \"">> \o id \o <<"\" not found. Available providers: ">>
              \o (IF Join(keys, ", ") # <<>> THEN Join(keys, ", ") ELSE <<"none">>))

MergeDefaultsLast(defaultConfig, config, id) ==
    [k \in DOMAIN defaultConfig \cup DOMAIN config \cup {<<"name">>} |->
        IF k = <<"name">> THEN Str(id)
        ELSE IF k \in DOMAIN defaultConfig THEN defaultConfig[k]
        ELSE config[k]]

\* { ...defaultConfig, ...config, name: id }, lines 60-64
Merge(defaultConfig, config, id) ==
    [k \in DOMAIN defaultConfig \cup DOMAIN config \cup {<<"name">>} |->
        IF k = <<"name">> THEN Str(id)
        ELSE IF k \in DOMAIN config THEN config[k]
        ELSE defaultConfig[k]]

\* get, lines 45-67.  The registry is populated at start-up and read-only
\* once a provider has been asked for.
GetProvider ==
    /\ pc = "registry"
    /\ pc' = "resolved"
    /\ \E id \in RequestedIds, config \in PartialConfigs :
        LET class == MapGet(providers, ToLowerCase(id)) IN
        /\ request' = Request(id, config)
        /\ IF class = ""
           THEN /\ result' = ProviderNotFound(id, MapKeys(providers))
                /\ UNCHANGED instance
           ELSE /\ result' = Returned(<<>>)
                /\ instance' =
                      <<[class |-> class,
                         config |-> Merge(MetadataOf(providerMetadata, class).defaultConfig,
                                          config, id)]>>
    /\ UNCHANGED <<providers, providerMetadata, warnings, registered, providerVars, otherVars>>
    /\ UNCHANGED <<historyConfig, historyFile, caller, commandName, options, stdin,
                   input, values, prompt, response, loaded, exitCode, stages,
                   calls, prevFile, runs, directVars>>

InitRegistry ==
    /\ NoConfigManager
    /\ NoWriters
    /\ NoDialog
    /\ historyConfig = [enabled |-> FALSE, maxEntries |-> 1]
    /\ historyFile = [exists |-> FALSE, log |-> <<>>]
    /\ prevFile = historyFile
    /\ pc = "registry"
    /\ values = NoValues
    /\ caller = "api"
    /\ commandName = ""
    /\ options = [dryRun |-> FALSE, params |-> NoValues, input |-> Undefined]
    /\ stdin = [isTTY |-> TRUE, data |-> <<>>, drained |-> FALSE]
    /\ input = <<>>
    /\ prompt = <<>>
    /\ response = <<>>
    /\ loaded = <<>>
    /\ result = Returned(<<>>)
    /\ exitCode = 0
    /\ stages = <<>>
    /\ calls = 0
    /\ runs = 0
    /\ added = <<>>
    /\ callTemplate = <<>>
    /\ callParams = NoParams
    /\ providerConfig = DefaultProviderConfig
    /\ backend = NoAnswer
    /\ fetches = 0
    /\ providers = <<>>
    /\ providerMetadata = NoMetadata
    /\ warnings = <<>>
    /\ registered = <<>>
    /\ request = NoRequest
    /\ instance = <<>>

NextRegistry ==
    \/ Register
    \/ Provider
    \/ Clear
    \/ GetProvider

SpecRegistry == InitRegistry /\ [][NextRegistry]_vars

----------------------------------------------------------------------------
(* CommandRunner.run *)

NotFoundWithoutHint(name) ==
    UserError(<<"Command '", name, "' not found">>, <<>>)

NotFound(name) ==
    UserError(<<"Command '", name, "' not found">>,
              <<"Run \"aiq list\" to see available commands">>)

\* The run ends: it returns or raises `res`.  The CLI front end's
\* handleError exits with status 1 on any error.
Finish(res) ==
    /\ result' = res
    /\ pc' = "done"
    /\ exitCode' = IF caller = "cli" /\ ~res.ok THEN 1 ELSE 0

\* A new process: the locals of a run before it starts.
Fresh(who, opts, sin) ==
    /\ caller' = who
    /\ commandName' = opts.name
    /\ options' = [dryRun |-> opts.dryRun, params |-> opts.params, input |-> opts.input]
    /\ stdin' = sin
    /\ input' = <<>>
    /\ values' = NoValues
    /\ prompt' = <<>>
    /\ response' = <<>>
    /\ loaded' = <<>>
    /\ calls' = 0
    /\ prevFile' = historyFile
    /\ runs' = runs + 1
    /\ backend' = NoAnswer
    /\ fetches' = 0
    /\ UNCHANGED <<providerConfig, registryVars, configVars, writers>>
    /\ UNCHANGED <<historyConfig, historyFile, directVars>>

\* run, lines 28-36: resolve the command by name.
Resolve(who, opts, sin) ==
    /\ pc \in {"idle", "done"}
    /\ runs < MaxRuns
    /\ Fresh(who, opts, sin)
    /\ exitCode' = 0
    /\ IF Found(opts.name)
       THEN /\ pc' = "input"
            /\ stages' = <<"Resolving">>
            /\ result' = Returned(<<>>)
       ELSE /\ pc' = "done"
            /\ stages' = <<"Resolving", "Failed">>
            /\ result' = NotFound(opts.name)

\* Another module (history replay, the test command) calls runner.run.
Run ==
    /\ \E opts \in RunOptions, sin \in Streams : Resolve("api", opts, sin)
    /\ UNCHANGED dialogVars

\* The CLI front end's runCommand: an unknown name is reported and the
\* process exits before the runner is called; otherwise runner.run is
\* called with the declared parameters and the joined input arguments.
RunCommand ==
    /\ \E opts \in RunOptions, sin \in Streams :
        IF Found(opts.name)
        THEN Resolve("cli", opts, sin)
        ELSE /\ pc \in {"idle", "done"}
             /\ runs < MaxRuns
             /\ Fresh("cli", opts, sin)
             /\ pc' = "done"
             /\ stages' = <<>>
             /\ result' = NotFound(opts.name)
             /\ exitCode' = 1
    /\ UNCHANGED dialogVars

\* getStdinInput: a piped stream is drained to its end and trimmed.
getStdinInput(sin) == IF ~sin.isTTY THEN Trim(sin.data) ELSE <<>>

AcquireInputFromStream(opts, sin) == getStdinInput(sin)

\* run, line 39: options.input || (await this.getStdinInput())
AcquireInput(opts, sin) ==
    IF ~Falsy(opts.input) THEN StringOf(opts.input) ELSE getStdinInput(sin)

\* Whether line 39 reads the stream: getStdinInput is called when
\* options.input is falsy, and iterates the stream when it is no terminal.
ReadsStream(opts, sin) == Falsy(opts.input) /\ ~sin.isTTY

GetInput ==
    /\ pc = "input"
    /\ input' = AcquireInput(options, stdin)
    /\ stdin' = [stdin EXCEPT !.drained = ReadsStream(options, stdin)]
    /\ pc' = "validate"
    /\ stages' = stages \o <<"Input">>
    /\ UNCHANGED <<providerVars, registryVars, otherVars>>
    /\ UNCHANGED <<historyConfig, historyFile, caller, commandName, options,
                   values, prompt, response, loaded, result, exitCode, calls,
                   prevFile, runs, directVars>>

\* run, lines 42-45: the value map handed to validation.
InitialValues(opts, text) == Put(opts.params, INPUT, Str(text))

ValidateIgnoringFailure ==
    /\ pc = "validate"
    /\ LET command == Find(commandName)
           r == validateParams(command.prompt, InitialValues(options, input),
                               command.params)
       IN values' = r.values
    /\ pc' = "render"
    /\ stages' = stages \o <<"Validating">>
    /\ UNCHANGED <<providerVars, registryVars, otherVars>>
    /\ UNCHANGED <<historyConfig, historyFile, caller, commandName, options, stdin,
                   input, prompt, response, loaded, result, exitCode, calls,
                   prevFile, runs, directVars>>

ValidateInPlace ==
    /\ pc = "validate"
    /\ LET command == Find(commandName)
           r == validateParams(command.prompt, InitialValues(options, input),
                               command.params)
       IN /\ values' = r.values
          /\ options' = [options EXCEPT !.params =
                            [k \in DOMAIN options.params |-> r.values[k]]]
          /\ IF r.outcome.ok
             THEN /\ pc' = "render"
                  /\ stages' = stages \o <<"Validating">>
                  /\ UNCHANGED <<result, exitCode>>
             ELSE /\ Finish(r.outcome)
                  /\ stages' = stages \o <<"Validating", "Failed">>
    /\ UNCHANGED <<providerVars, registryVars, otherVars>>
    /\ UNCHANGED <<historyConfig, historyFile, caller, commandName, stdin,
                   input, prompt, response, loaded, calls, prevFile, runs, directVars>>

\* run, lines 42-48: build the value map and validate it.
Validate ==
    /\ pc = "validate"
    /\ LET command == Find(commandName)
           r == validateParams(command.prompt, InitialValues(options, input),
                               command.params)
       IN /\ values' = r.values
          /\ IF r.outcome.ok
             THEN /\ pc' = "render"
                  /\ stages' = stages \o <<"Validating">>
                  /\ UNCHANGED <<result, exitCode>>
             ELSE /\ Finish(r.outcome)
                  /\ stages' = stages \o <<"Validating", "Failed">>
    /\ UNCHANGED <<providerVars, registryVars, otherVars>>
    /\ UNCHANGED <<historyConfig, historyFile, caller, commandName, options, stdin,
                   input, prompt, response, loaded, calls, prevFile, runs, directVars>>

\* run, line 51: render the prompt.
Render ==
    /\ pc = "render"
    /\ LET command == Find(commandName)
           r == render(command.prompt, values, command.params)
       IN IF r.ok
          THEN /\ prompt' = r.text
               /\ pc' = "rendered"
               /\ stages' = stages \o <<"Rendering">>
               /\ UNCHANGED <<result, exitCode>>
          ELSE /\ Finish(r)
               /\ stages' = stages \o <<"Rendering", "Failed">>
               /\ UNCHANGED prompt
    /\ UNCHANGED <<providerVars, registryVars, otherVars>>
    /\ UNCHANGED <<historyConfig, historyFile, caller, commandName, options, stdin,
                   input, values, response, loaded, calls, prevFile, runs, directVars>>

\* run, lines 54-59: a dry run shows the prompt and returns ''.
DryRunTerminal ==
    /\ pc = "rendered"
    /\ options.dryRun
    /\ Finish(Returned(<<>>))
    /\ stages' = stages \o <<"DryRunTerminal", "Done">>
    /\ UNCHANGED <<providerVars, registryVars, otherVars>>
    /\ UNCHANGED <<historyConfig, historyFile, caller, commandName, options, stdin,
                   input, values, prompt, response, loaded, calls, prevFile, runs,
                   directVars>>

ExecuteIgnoringDryRun ==
    /\ pc = "rendered"
    /\ calls' = calls + 1
    /\ fetches' = fetches + 1
    /\ pc' = "executing"
    /\ stages' = stages \o <<"Executing">>
    /\ UNCHANGED <<providerConfig, backend, registryVars, otherVars>>
    /\ UNCHANGED <<historyConfig, historyFile, caller, commandName, options, stdin,
                   input, values, prompt, response, loaded, result, exitCode,
                   prevFile, runs, directVars>>

\* run, line 66: provider.executePrompt(prompt) is called; the provider
\* builds the request and sends it (executePrompt, lines 42-67).
Execute ==
    /\ pc = "rendered"
    /\ ~options.dryRun
    /\ calls' = calls + 1
    /\ fetches' = fetches + 1
    /\ pc' = "executing"
    /\ stages' = stages \o <<"Executing">>
    /\ UNCHANGED <<providerConfig, backend, registryVars, otherVars>>
    /\ UNCHANGED <<historyConfig, historyFile, caller, commandName, options, stdin,
                   input, values, prompt, response, loaded, result, exitCode,
                   prevFile, runs, directVars>>

\* The constructor creates the HistoryManager only when history is enabled.
HasHistory == historyConfig.enabled

\* run, lines 66-82: the backend answered and executePrompt returned.
ProviderReturns ==
    /\ pc = "executing"
    /\ \E answer \in BackendAnswers :
        LET r == executePrompt(providerConfig, answer) IN
        /\ r.ok
        /\ backend' = answer
        /\ response' = r.text
        /\ IF HasHistory
           THEN /\ pc' = "recording"
                /\ stages' = stages \o <<"Recording">>
                /\ UNCHANGED <<result, exitCode>>
           ELSE /\ Finish(Returned(r.text))
                /\ stages' = stages \o <<"Done">>
    /\ UNCHANGED <<providerConfig, fetches, registryVars, otherVars>>
    /\ UNCHANGED <<historyConfig, historyFile, caller, commandName, options, stdin,
                   input, values, prompt, loaded, calls, prevFile, runs, directVars>>

\* run, lines 83-86: executePrompt raised; the error is raised again.
ProviderFails ==
    /\ pc = "executing"
    /\ \E answer \in BackendAnswers :
        LET r == executePrompt(providerConfig, answer) IN
        /\ ~r.ok
        /\ backend' = answer
        /\ Finish(r)
    /\ stages' = stages \o <<"Failed">>
    /\ UNCHANGED <<providerConfig, fetches, registryVars, otherVars>>
    /\ UNCHANGED <<historyConfig, historyFile, caller, commandName, options, stdin,
                   input, values, prompt, response, loaded, calls, prevFile, runs,
                   directVars>>

\* HistoryManager.add, lines 43-53: the log is loaded.
HistoryLoad ==
    /\ pc = "recording"
    /\ historyConfig.enabled
    /\ loaded' = LoadHistory(historyFile)
    /\ pc' = "saving"
    /\ UNCHANGED <<providerVars, registryVars, otherVars>>
    /\ UNCHANGED <<historyConfig, historyFile, runVars, directVars>>

\* HistoryManager.load, lines 68-75: the read or the parse failed although
\* the file exists.
HistoryLoadFails ==
    /\ pc = "recording"
    /\ historyConfig.enabled
    /\ historyFile.exists
    /\ loaded' = LoadHistoryFailed(historyFile)
    /\ pc' = "saving"
    /\ UNCHANGED <<providerVars, registryVars, otherVars>>
    /\ UNCHANGED <<historyConfig, historyFile, runVars, directVars>>

NewEntryWithTemplate ==
    HistoryEntry(Len(OlderLog) + runs, commandName, options.params,
                 Find(commandName).prompt, response)

\* The entry run hands to history.add, with the id and timestamp add gives
\* it: fresh ones, later than those of the entries earlier processes left.
NewEntry ==
    HistoryEntry(Len(OlderLog) + runs, commandName, options.params, prompt, response)

\* HistoryManager.add, lines 54-61, then run returns the response.
HistorySave ==
    /\ pc = "saving"
    /\ historyFile' = SaveHistory(Prepend(loaded, NewEntry, historyConfig.maxEntries))
    /\ Finish(Returned(response))
    /\ stages' = stages \o <<"Done">>
    /\ UNCHANGED <<providerVars, registryVars, otherVars>>
    /\ UNCHANGED <<historyConfig, caller, commandName, options, stdin, input, values,
                   prompt, response, loaded, calls, prevFile, runs, directVars>>

\* The error HistoryManager.save raises when mkdir or writeFile fails.
SaveError == Error(<<"EACCES: permission denied">>)

\* What run does when history.add raises `err` after the provider answered
\* `text`: the call is inside the try block, whose catch raises it again.
RecordingFailed(err, text) == err

\* HistoryManager.save raised: add raises, inside run's try block.
HistorySaveFails ==
    /\ pc = "saving"
    /\ Finish(RecordingFailed(SaveError, response))
    /\ stages' = stages \o <<"Failed">>
    /\ UNCHANGED <<providerVars, registryVars, otherVars>>
    /\ UNCHANGED <<historyConfig, historyFile, caller, commandName, options, stdin,
                   input, values, prompt, response, loaded, calls, prevFile, runs,
                   directVars>>

\* The run locals of a process that has not called run yet.
Idle ==
    /\ caller = "api"
    /\ commandName = ""
    /\ options = [dryRun |-> FALSE, params |-> NoValues, input |-> Undefined]
    /\ stdin = [isTTY |-> TRUE, data |-> <<>>, drained |-> FALSE]
    /\ input = <<>>
    /\ prompt = <<>>
    /\ response = <<>>
    /\ loaded = <<>>
    /\ result = Returned(<<>>)
    /\ exitCode = 0
    /\ stages = <<>>
    /\ calls = 0
    /\ runs = 0

NoDirectCall ==
    /\ added = <<>>
    /\ callTemplate = <<>>
    /\ callParams = NoParams

\* A provider that has sent nothing yet.
NoTraffic ==
    /\ backend = NoAnswer
    /\ fetches = 0

\* The registry before any provider has registered.
EmptyRegistry ==
    /\ providers = <<>>
    /\ providerMetadata = NoMetadata
    /\ warnings = <<>>
    /\ registered = <<>>
    /\ request = NoRequest
    /\ instance = <<>>

Init ==
    /\ NoConfigManager
    /\ NoWriters
    /\ NoDialog
    /\ historyConfig \in HistoryConfigs
    /\ historyFile \in HistoryFiles(historyConfig)
    /\ prevFile = historyFile
    /\ pc = "idle"
    /\ values = NoValues
    /\ Idle
    /\ NoDirectCall
    /\ providerConfig = UsableProviderConfig
    /\ NoTraffic
    /\ EmptyRegistry

Next ==
    \/ Run
    \/ RunCommand
    \/ GetInput
    \/ Validate
    \/ Render
    \/ DryRunTerminal
    \/ Execute
    \/ ProviderReturns
    \/ ProviderFails
    \/ HistoryLoad
    \/ HistoryLoadFails
    \/ HistorySave
    \/ HistorySaveFails

Spec == Init /\ [][Next]_vars

\* The same runs by a process started with any of the provider
\* configurations, recording to a history log that is still empty.
InitProvider ==
    /\ NoConfigManager
    /\ NoWriters
    /\ NoDialog
    /\ historyConfig = [enabled |-> TRUE, maxEntries |-> MaxCeiling]
    /\ historyFile = [exists |-> TRUE, log |-> <<>>]
    /\ prevFile = historyFile
    /\ pc = "idle"
    /\ values = NoValues
    /\ Idle
    /\ NoDirectCall
    /\ providerConfig \in ProviderConfigs
    /\ NoTraffic
    /\ EmptyRegistry

SpecProvider == InitProvider /\ [][Next]_vars

----------------------------------------------------------------------------
(* HistoryManager.add called directly, by a single writer *)

\* What the callers hand to add: a command name, its prompt and response.
AddPayloads ==
    {[command |-> "summarize", prompt |-> <<"Summarize in", " ", "50">>,
      response |-> <<"reply">>],
     [command |-> "commit", prompt |-> <<"Write a">>, response |-> <<"ok">>]}

\* add, lines 42-53: return at once when history is disabled, else make the
\* entry and load the log.
AddCall ==
    /\ pc = "ready"
    /\ runs < MaxAdds
    /\ \E p \in AddPayloads :
        /\ commandName' = p.command
        /\ prompt' = p.prompt
        /\ response' = p.response
    /\ runs' = runs + 1
    /\ IF historyConfig.enabled
       THEN /\ loaded' = LoadHistory(historyFile)
            /\ pc' = "adding"
       ELSE UNCHANGED <<loaded, pc>>
    /\ UNCHANGED <<providerVars, registryVars, otherVars>>
    /\ UNCHANGED <<historyConfig, historyFile, caller, options, stdin, input, values,
                   result, exitCode, stages, calls, prevFile, directVars>>

\* add, lines 54-61: prepend, limit the size, save.
AddSave ==
    /\ pc = "adding"
    /\ historyFile' = SaveHistory(Prepend(loaded, NewEntry, historyConfig.maxEntries))
    /\ added' = <<NewEntry>> \o added
    /\ pc' = "ready"
    /\ UNCHANGED <<providerVars, registryVars, otherVars>>
    /\ UNCHANGED <<historyConfig, loaded, runVars, callTemplate, callParams>>

\* save raised: add raises and nothing is persisted.
AddSaveFails ==
    /\ pc = "adding"
    /\ pc' = "ready"
    /\ UNCHANGED <<providerVars, registryVars, otherVars>>
    /\ UNCHANGED <<historyConfig, historyFile, loaded, runVars, directVars>>

InitAdd ==
    /\ NoConfigManager
    /\ NoWriters
    /\ NoDialog
    /\ historyConfig \in HistoryConfigs
    /\ historyFile = [exists |-> FALSE, log |-> <<>>]
    /\ prevFile = historyFile
    /\ pc = "ready"
    /\ values = NoValues
    /\ Idle
    /\ NoDirectCall
    /\ providerConfig = DefaultProviderConfig
    /\ NoTraffic
    /\ EmptyRegistry

NextAdd ==
    \/ AddCall
    \/ AddSave
    \/ AddSaveFails

SpecAdd == InitAdd /\ [][NextAdd]_vars

----------------------------------------------------------------------------
(* TemplateEngine.render called directly *)

TemplateTokens == {"{", "}", "input", "x", " "}

\* The templates: every non-empty token sequence up to the bound (the
\* configuration is rejected when a command's prompt is empty), and some
\* longer ones in which a placeholder occurs twice.
Templates ==
    UNION {[1..n -> TemplateTokens] : n \in 1..MaxTemplateLen}
        \cup {<<"{", "x", "}", "{", "x", "}">>,
              <<"{", "x", "}", " ", "{", "input", "}", " ", "{", "x", "}">>,
              <<"{", "input", "}", "{", "input", "}">>}

\* Value maps: input absent, empty, a word or a blank; x absent, null or
\* given.
RenderValues ==
    LET xs == {NoValues, One(<<"x">>, Str(<<"v">>)), One(<<"x">>, Null)}
    IN xs \cup {Put(m, INPUT, i) :
                  m \in xs, i \in {Str(<<>>), Str(<<"in">>), Str(<<" ">>)}}

\* Parameter definitions: none, x with a default, x required.
RenderParams ==
    {NoParams,
     One(<<"x">>, ParamDef("string", Str(<<"d">>), FALSE, <<>>, FALSE, <<>>)),
     One(<<"x">>, ParamDef("string", Undefined, TRUE, <<>>, FALSE, <<>>))}

RenderCall ==
    /\ pc = "render"
    /\ result' = render(callTemplate, values, callParams)
    /\ pc' = "returned"
    /\ UNCHANGED <<providerVars, registryVars, otherVars>>
    /\ UNCHANGED <<historyConfig, historyFile, caller, commandName, options, stdin,
                   input, values, prompt, response, loaded, exitCode, stages, calls,
                   prevFile, runs, directVars>>

InitRender ==
    /\ NoConfigManager
    /\ NoWriters
    /\ NoDialog
    /\ historyConfig = [enabled |-> FALSE, maxEntries |-> 1]
    /\ historyFile = [exists |-> FALSE, log |-> <<>>]
    /\ prevFile = historyFile
    /\ pc = "render"
    /\ callTemplate \in Templates
    /\ values \in RenderValues
    /\ callParams \in RenderParams
    /\ added = <<>>
    /\ Idle
    /\ providerConfig = DefaultProviderConfig
    /\ NoTraffic
    /\ EmptyRegistry

NextRender == RenderCall

SpecRender == InitRender /\ [][NextRender]_vars

----------------------------------------------------------------------------
(* TemplateEngine.validateParams called directly *)

\* Templates over a number parameter n and a string parameter s.
ValidateTemplates ==
    {<<"{", "n", "}">>,
     <<"{", "s", "}", " ", "{", "n", "}">>,
     <<"{", "n", "}", " ", "{", "s", "}">>,
     <<"{", "n", "}", " ", "{", "input", "}", " ", "{", "n", "}">>}

\* Value maps: n absent, null, a numeric or a non-numeric text, or already
\* a number; s absent or given.
ValidateValues ==
    LET ns == {NoValues} \cup
              {One(<<"n">>, v) : v \in {Str(<<"42">>), Str(<<"42.0">>), Str(<<"abc">>),
                                        Str(<<>>), Null, Num("7")}}
    IN ns \cup {Put(m, <<"s">>, Str(<<"a">>)) : m \in ns}

\* Definitions of n: a number without default, with a default, with a
\* default that is no number, required, restricted to choices, restricted
\* to choices of which one is written with a fraction.
NumberDefs ==
    {ParamDef("number", Undefined, FALSE, <<>>, FALSE, <<>>),
     ParamDef("number", Num("50"), FALSE, <<>>, FALSE, <<>>),
     ParamDef("number", Str(<<"abc">>), FALSE, <<>>, FALSE, <<>>),
     ParamDef("number", Undefined, TRUE, <<>>, FALSE, <<>>),
     ParamDef("number", Undefined, FALSE, <<>>, TRUE, << <<"42">>, <<"7">> >>),
     ParamDef("number", Undefined, FALSE, <<>>, TRUE, << <<"42.0">>, <<"7">> >>)}

\* The parameter definitions: n always, s required or not declared.
ValidateParams ==
    {One(<<"n">>, d) : d \in NumberDefs}
        \cup {Put(One(<<"n">>, d), <<"s">>,
                  ParamDef("string", Undefined, TRUE, <<>>, FALSE, <<>>)) :
                 d \in NumberDefs}

\* validateParams(callTemplate, values, callParams): the map is mutated in
\* place; options.params keeps the map as the caller handed it in.
ValidateCall ==
    /\ pc = "validate"
    /\ LET r == validateParams(callTemplate, values, callParams)
       IN /\ values' = r.values
          /\ result' = r.outcome
    /\ pc' = "validated"
    /\ UNCHANGED <<providerVars, registryVars, otherVars>>
    /\ UNCHANGED <<historyConfig, historyFile, caller, commandName, options, stdin,
                   input, prompt, response, loaded, exitCode, stages, calls,
                   prevFile, runs, directVars>>

InitValidate ==
    /\ NoConfigManager
    /\ NoWriters
    /\ NoDialog
    /\ historyConfig = [enabled |-> FALSE, maxEntries |-> 1]
    /\ historyFile = [exists |-> FALSE, log |-> <<>>]
    /\ prevFile = historyFile
    /\ pc = "validate"
    /\ callTemplate \in ValidateTemplates
    /\ values \in ValidateValues
    /\ callParams \in ValidateParams
    /\ added = <<>>
    /\ caller = "api"
    /\ commandName = ""
    /\ options = [dryRun |-> FALSE, params |-> values, input |-> Undefined]
    /\ stdin = [isTTY |-> TRUE, data |-> <<>>, drained |-> FALSE]
    /\ input = <<>>
    /\ prompt = <<>>
    /\ response = <<>>
    /\ loaded = <<>>
    /\ result = Returned(<<>>)
    /\ exitCode = 0
    /\ stages = <<>>
    /\ calls = 0
    /\ runs = 0
    /\ providerConfig = DefaultProviderConfig
    /\ NoTraffic
    /\ EmptyRegistry

\* validateParams called once more with the map the first call left.
ValidateAgain ==
    /\ pc = "validated"
    /\ result.ok
    /\ LET r == validateParams(callTemplate, values, callParams)
       IN /\ values' = r.values
          /\ result' = r.outcome
    /\ pc' = "revalidated"
    /\ UNCHANGED <<providerVars, registryVars, otherVars>>
    /\ UNCHANGED <<historyConfig, historyFile, caller, commandName, options, stdin,
                   input, prompt, response, loaded, exitCode, stages, calls,
                   prevFile, runs, directVars>>

NextValidate ==
    \/ ValidateCall
    \/ ValidateAgain

SpecValidate == InitValidate /\ [][NextValidate]_vars

----------------------------------------------------------------------------
(* aiq processes that manage the configured commands *)

ManagedNames == {"summarize", "commit", "draft"}

SummarizeCommand == ConfigCommand("summarize", <<"Summarize: ", "{", "input", "}">>)
CommitCommand == ConfigCommand("commit", <<"Commit ", "${AIQ_STYLE:-brief}">>)

\* The configuration files a process can find: none, no JSON, valid
\* documents, and documents validate rejects (no provider, a duplicate
\* name, a prompt that resolves to the empty string).
ConfigFiles ==
    {MissingConfig, NotJsonConfig,
     ConfigDocument(Config(TRUE, <<SummarizeCommand, CommitCommand>>)),
     ConfigDocument(Config(TRUE, <<>>)),
     ConfigDocument(Config(FALSE, <<SummarizeCommand>>)),
     ConfigDocument(Config(TRUE, <<SummarizeCommand, CommitCommand, SummarizeCommand>>)),
     ConfigDocument(Config(TRUE, <<ConfigCommand("draft", <<"${AIQ_UNSET}">>)>>))}

\* What the editor hands back for a prompt.
EditedPrompts == {<<" ", "shorter", "\n">>, <<"\n">>}

\* Everything but the configuration, its manager and its front end.
notConfigVars == <<historyConfig, historyFile, pc, loaded, runVars, directVars,
                   providerVars, registryVars, writers, dialogVars>>

\* The entry point, part_000 lines 23-31: the configuration is loaded once.
Initialize ==
    /\ cpc = "start"
    /\ LET r == load(configFile, thisConfig)
       IN /\ thisConfig' = r.config
          /\ cliConfig' = r.returned
    /\ cpc' = "ready"
    /\ UNCHANGED <<configFile, op, observed, ops, notConfigVars>>

\* The operation ends with the configuration object `cfg`, which is the
\* object the manager holds; save wrote it or raised.
Persist(cfg, changed, written, kind, name, newName) ==
    /\ cliConfig' = cfg
    /\ thisConfig' = cfg
    /\ configFile' = IF changed /\ written THEN SaveConfig(cfg) ELSE configFile
    /\ op' = [kind |-> kind, name |-> name, newName |-> newName,
              outcome |-> IF changed /\ ~written THEN SaveError ELSE Returned(<<>>),
              before |-> cliConfig.commands, beforeFile |-> configFile]

\* The operation raises `err` before it changes anything.
Refuse(err, kind, name) ==
    /\ op' = [kind |-> kind, name |-> name, newName |-> "", outcome |-> err,
              before |-> cliConfig.commands, beforeFile |-> configFile]
    /\ UNCHANGED <<cliConfig, thisConfig, configFile>>

\* aiq add: addNewCommand, part_009 lines 124-350, which ends in
\* ConfigManager.addCommand.  The subcommand exists only when a
\* configuration was loaded (part_000 lines 51-53).
AddNewCommand ==
    /\ cpc = "ready"
    /\ cliConfig.present
    /\ \E name \in ManagedNames, written \in BOOLEAN :
        LET r == addCommand(ConfigCommand(name, <<"Do ", name>>), cliConfig)
        IN IF r.pushed
           THEN Persist(r.config, TRUE, written, "add", name, "")
           ELSE /\ ~written
                /\ Refuse(r.outcome, "add", name)
    /\ cpc' = "exited"
    /\ UNCHANGED <<observed, ops, notConfigVars>>

\* aiq edit <command>, part_009 lines 352-440.  The rename prompt accepts a
\* name only when its validator returns true (lines 416-425).
EditCommand ==
    /\ cpc = "ready"
    /\ cliConfig.present
    /\ \E name \in ManagedNames, action \in {"prompt", "rename", "params", "cancel"},
          newName \in ManagedNames, newPrompt \in EditedPrompts, written \in BOOLEAN :
        IF ~HasCommand(cliConfig, name)
        THEN /\ action = "cancel" /\ newName = name /\ ~written
             /\ newPrompt = <<"\n">>
             /\ Refuse(NotFound(name), "edit", name)
        ELSE LET i == IndexOfCommand(cliConfig, name) IN
             CASE action = "prompt" ->
                    /\ newName = name
                    /\ Persist([cliConfig EXCEPT !.commands[i].prompt = Trim(newPrompt)],
                               TRUE, written, "prompt", name, "")
               [] action = "rename" ->
                    /\ newPrompt = <<"\n">>
                    /\ ~HasCommand(cliConfig, newName)
                    /\ Persist([cliConfig EXCEPT !.commands[i].name = newName],
                               TRUE, written, "rename", name, newName)
               [] OTHER ->
                    /\ newName = name /\ ~written /\ newPrompt = <<"\n">>
                    /\ Persist(cliConfig, FALSE, FALSE, action, name, "")
    /\ cpc' = "exited"
    /\ UNCHANGED <<observed, ops, notConfigVars>>

\* aiq remove <command>, part_009 lines 442-469.
RemoveCommand ==
    /\ cpc = "ready"
    /\ cliConfig.present
    /\ \E name \in ManagedNames, confirm \in BOOLEAN, written \in BOOLEAN :
        IF ~HasCommand(cliConfig, name)
        THEN /\ ~confirm /\ ~written
             /\ Refuse(NotFound(name), "remove", name)
        ELSE IF ~confirm
        THEN /\ ~written
             /\ Persist(cliConfig, FALSE, FALSE, "cancel", name, "")
        ELSE LET i == IndexOfCommand(cliConfig, name)
                 rest == [j \in 1..(Len(cliConfig.commands) - 1) |->
                            IF j < i THEN cliConfig.commands[j]
                            ELSE cliConfig.commands[j + 1]]
             IN Persist([cliConfig EXCEPT !.commands = rest],
                        TRUE, written, "remove", name, "")
    /\ cpc' = "exited"
    /\ UNCHANGED <<observed, ops, notConfigVars>>

\* aiq config validate, config.ts lines 303-329: the subcommand exists
\* whether a configuration was loaded or not, and asks the manager.
ValidateConfig ==
    /\ cpc = "ready"
    /\ observed' = [seen |-> TRUE, by |-> "get", value |-> get(thisConfig)]
    /\ cpc' = "exited"
    /\ UNCHANGED <<configFile, thisConfig, cliConfig, op, ops, notConfigVars>>

\* Another caller of ConfigManager.getInstance().load() in the same process.
LoadAgain ==
    /\ cpc = "ready"
    /\ LET r == load(configFile, thisConfig)
       IN /\ thisConfig' = r.config
          /\ observed' = [seen |-> TRUE, by |-> "load", value |-> r.returned]
    /\ cpc' = "exited"
    /\ UNCHANGED <<configFile, cliConfig, op, ops, notConfigVars>>

\* The process ends and aiq is started again.
NextProcess ==
    /\ cpc = "exited"
    /\ ops < MaxOps
    /\ ops' = ops + 1
    /\ cpc' = "start"
    /\ thisConfig' = NoConfig
    /\ cliConfig' = NoConfig
    /\ op' = NoOp
    /\ observed' = NotObserved
    /\ UNCHANGED <<configFile, notConfigVars>>

InitConfig ==
    /\ historyConfig = [enabled |-> FALSE, maxEntries |-> 1]
    /\ historyFile = [exists |-> FALSE, log |-> <<>>]
    /\ prevFile = historyFile
    /\ pc = "idle"
    /\ values = NoValues
    /\ Idle
    /\ NoDirectCall
    /\ providerConfig = DefaultProviderConfig
    /\ NoTraffic
    /\ EmptyRegistry
    /\ configFile \in ConfigFiles
    /\ thisConfig = NoConfig
    /\ cliConfig = NoConfig
    /\ cpc = "start"
    /\ op = NoOp
    /\ observed = NotObserved
    /\ ops = 0
    /\ NoWriters
    /\ NoDialog

NextConfig ==
    \/ Initialize
    \/ AddNewCommand
    \/ EditCommand
    \/ RemoveCommand
    \/ ValidateConfig
    \/ LoadAgain
    \/ NextProcess

SpecConfig == InitConfig /\ [][NextConfig]_vars

----------------------------------------------------------------------------
(* CommandRunner.testCommand *)

\* The sample inputs a test is called with, and what the user types at the
\* confirmation prompt.
TestInputs == {<<"sample">>, <<>>}
TypedAnswers ==
    {<<"y", "\n">>, <<" ", "Y", "\n">>, <<"n", "\n">>, <<"yes", "\n">>, <<"\n">>}

\* testCommand, lines 144-153: the input and the declared defaults.
TestValues(command, testInput) ==
    LET defaulted == {k \in DOMAIN command.params : command.params[k].default # Undefined}
    IN [k \in defaulted \cup {INPUT} |->
            IF k \in defaulted THEN command.params[k].default ELSE Str(testInput)]

ConfirmedAlways(typed) == TRUE

\* testCommand, lines 161-163, with promptUser's trim (line 175).
Confirmed(typed) == ToLowerCase(Trim(typed)) = <<"y">>

\* testCommand, lines 131-159: the command is resolved, the prompt is
\* rendered from the input and the defaults and shown.
TestCommand ==
    /\ test.pc = "none"
    /\ pc = "idle"
    /\ \E name \in RequestedNames, testInput \in TestInputs :
        IF ~Found(name)
        THEN test' = [NoTest EXCEPT !.pc = "failed", !.name = name, !.input = testInput,
                                    !.outcome = NotFound(name)]
        ELSE LET command == Find(name)
                 r == render(command.prompt, TestValues(command, testInput),
                             command.params)
             IN IF r.ok
                THEN test' = [NoTest EXCEPT !.pc = "shown", !.name = name,
                                            !.input = testInput, !.shown = r.text]
                ELSE test' = [NoTest EXCEPT !.pc = "failed", !.name = name,
                                            !.input = testInput, !.outcome = r]
    /\ UNCHANGED <<historyConfig, historyFile, pc, loaded, runVars, directVars,
                   providerVars, registryVars, configVars, writers, replay>>

\* testCommand, lines 161-167: the user answers; only 'y' starts the run.
PromptUser ==
    /\ test.pc = "shown"
    /\ \E typed \in TypedAnswers, sin \in Streams :
        IF Confirmed(typed)
        THEN /\ test' = [test EXCEPT !.pc = "confirmed", !.answer = Trim(typed)]
             /\ Resolve("api", [name |-> test.name, dryRun |-> FALSE,
                                params |-> NoValues, input |-> Str(test.input)], sin)
        ELSE /\ test' = [test EXCEPT !.pc = "declined", !.answer = Trim(typed)]
             /\ sin.isTTY
             /\ UNCHANGED <<historyConfig, historyFile, pc, loaded, runVars, directVars,
                            providerVars, registryVars, configVars, writers>>
    /\ UNCHANGED replay

InitTest == Init

NextTest ==
    \/ TestCommand
    \/ PromptUser
    \/ GetInput
    \/ Validate
    \/ Render
    \/ Execute
    \/ ProviderReturns
    \/ ProviderFails
    \/ HistoryLoad
    \/ HistoryLoadFails
    \/ HistorySave
    \/ HistorySaveFails

SpecTest == InitTest /\ [][NextTest]_vars

----------------------------------------------------------------------------
(* Runs called with any explicit input, the empty string included *)

SuppliedInputs == ExplicitInputs \cup {Str(<<>>)}

InputOptions ==
    UNION {{[name |-> n, dryRun |-> d, params |-> p, input |-> i] :
                d \in BOOLEAN, p \in ParamsFor(n), i \in SuppliedInputs} :
           n \in CommandNames}

\* run called by the front end or by another module.
RunWithInput ==
    /\ \E who \in {"cli", "api"}, opts \in InputOptions, sin \in Streams :
          Resolve(who, opts, sin)
    /\ UNCHANGED dialogVars

InitInput ==
    /\ NoConfigManager
    /\ NoWriters
    /\ NoDialog
    /\ historyConfig = [enabled |-> TRUE, maxEntries |-> MaxCeiling]
    /\ historyFile = [exists |-> TRUE, log |-> <<>>]
    /\ prevFile = historyFile
    /\ pc = "idle"
    /\ values = NoValues
    /\ Idle
    /\ NoDirectCall
    /\ providerConfig = UsableProviderConfig
    /\ NoTraffic
    /\ EmptyRegistry

NextInput ==
    \/ RunWithInput
    \/ GetInput
    \/ Validate
    \/ Render
    \/ DryRunTerminal
    \/ Execute
    \/ ProviderReturns
    \/ ProviderFails
    \/ HistoryLoad
    \/ HistoryLoadFails
    \/ HistorySave
    \/ HistorySaveFails

SpecInput == InitInput /\ [][NextInput]_vars

----------------------------------------------------------------------------
(* HistoryManager.add called by two processes on the same file *)

Writers == {1, 2}
Other(w) == IF w = 1 THEN 2 ELSE 1

\* A process that has not called add yet.
WriterIdle ==
    [pc |-> "start", history |-> <<>>, entry |-> HistoryEntry(0, "", NoValues, <<>>, <<>>),
     afterOther |-> FALSE]

\* The entry add makes for process w, lines 47-51: a fresh id and the
\* time of the call.
WriterEntry(w, payload) ==
    HistoryEntry(Len(OlderLog) + w, payload.command, NoValues, payload.prompt,
                 payload.response)

\* add, lines 47-53, in process w: the entry is made and the log loaded.
\* afterOther notes whether the other process had finished its add by then.
WriterLoad(w) ==
    /\ writers[w].pc = "start"
    /\ \E payload \in AddPayloads :
        writers' = [writers EXCEPT ![w] =
                       [pc |-> "loaded", history |-> LoadHistory(historyFile),
                        entry |-> WriterEntry(w, payload),
                        afterOther |-> writers[Other(w)].pc = "done"]]
    /\ UNCHANGED <<historyConfig, historyFile, pc, loaded, runVars, directVars,
                   providerVars, registryVars, configVars, dialogVars>>

\* add, lines 54-61, in process w: prepend, limit the size, save.
WriterSave(w) ==
    /\ writers[w].pc = "loaded"
    /\ historyFile' = SaveHistory(Prepend(writers[w].history, writers[w].entry,
                                          historyConfig.maxEntries))
    /\ writers' = [writers EXCEPT ![w].pc = "done"]
    /\ UNCHANGED <<historyConfig, pc, loaded, runVars, directVars,
                   providerVars, registryVars, configVars, dialogVars>>

WriterLoads == \E w \in Writers : WriterLoad(w)
WriterSaves == \E w \in Writers : WriterSave(w)

InitWriters ==
    /\ historyConfig \in {c \in HistoryConfigs : c.enabled /\ c.maxEntries >= 1}
    /\ historyFile \in HistoryFiles(historyConfig)
    /\ prevFile = historyFile
    /\ pc = "idle"
    /\ values = NoValues
    /\ Idle
    /\ NoDirectCall
    /\ providerConfig = DefaultProviderConfig
    /\ NoTraffic
    /\ EmptyRegistry
    /\ NoConfigManager
    /\ writers = [w \in Writers |-> WriterIdle]
    /\ NoDialog

NextWriters ==
    \/ WriterLoads
    \/ WriterSaves

SpecWriters == InitWriters /\ [][NextWriters]_vars

----------------------------------------------------------------------------
(* aiq replay <id> *)

\* An entry recorded by a command that has been removed since.
RetiredEntry == HistoryEntry(4, "retired", NoValues, <<"Old prompt">>, <<"reply">>)

\* The logs a replay can find.
ReplayFiles ==
    {[exists |-> FALSE, log |-> <<>>],
     [exists |-> TRUE, log |-> <<>>],
     [exists |-> TRUE, log |-> OlderLog],
     [exists |-> TRUE, log |-> <<RetiredEntry, OlderLog[1]>>]}

ReplayIds == 0..4

\* HistoryManager.getById, lines 89-92
HasEntry(history, id) == \E i \in 1..Len(history) : history[i].id = id
getById(history, id) ==
    history[CHOOSE i \in 1..Len(history) :
                /\ history[i].id = id
                /\ \A j \in 1..(i - 1) : history[j].id # id]

\* replayCommand, history.ts lines 207-236: up to the call of runner.run.
Replay ==
    /\ replay.pc = "none"
    /\ pc = "idle"
    /\ \E id \in ReplayIds, sin \in Streams :
        LET history == LoadHistory(historyFile) IN
        IF ~historyConfig.enabled
        THEN /\ replay' = [NoReplay EXCEPT !.pc = "failed", !.id = id,
                              !.outcome = UserError(<<"History is disabled in config">>, <<>>)]
             /\ sin.isTTY
             /\ UNCHANGED <<historyConfig, historyFile, pc, loaded, runVars, directVars,
                            providerVars, registryVars, configVars, writers>>
        ELSE IF ~HasEntry(history, id)
        THEN /\ replay' = [NoReplay EXCEPT !.pc = "failed", !.id = id,
                              !.outcome = UserError(<<"Command with ID '", ToString(id),
                                                      "' not found">>,
                                                    <<"Use \"aiq history\" to see available IDs">>)]
             /\ sin.isTTY
             /\ UNCHANGED <<historyConfig, historyFile, pc, loaded, runVars, directVars,
                            providerVars, registryVars, configVars, writers>>
        ELSE LET entry == getById(history, id) IN
             IF ~Found(entry.command)
             THEN /\ replay' = [NoReplay EXCEPT !.pc = "failed", !.id = id, !.found = TRUE,
                                   !.command = entry.command,
                                   !.outcome = UserError(<<"Command '", entry.command,
                                                 "' no longer exists in config">>, <<>>)]
                  /\ sin.isTTY
                  /\ UNCHANGED <<historyConfig, historyFile, pc, loaded, runVars,
                                 directVars, providerVars, registryVars, configVars,
                                 writers>>
             ELSE /\ replay' = [NoReplay EXCEPT !.pc = "running", !.id = id,
                                   !.found = TRUE, !.command = entry.command,
                                   !.params = entry.params, !.prompt = entry.prompt]
                  /\ Resolve("api", [name |-> entry.command, dryRun |-> FALSE,
                                     params |-> entry.params,
                                     input |-> Str(entry.prompt)], sin)
    /\ UNCHANGED test

InitReplay ==
    /\ historyConfig \in {[enabled |-> FALSE, maxEntries |-> 1],
                          [enabled |-> TRUE, maxEntries |-> MaxCeiling]}
    /\ historyFile \in ReplayFiles
    /\ prevFile = historyFile
    /\ pc = "idle"
    /\ values = NoValues
    /\ Idle
    /\ NoDirectCall
    /\ providerConfig = UsableProviderConfig
    /\ NoTraffic
    /\ EmptyRegistry
    /\ NoConfigManager
    /\ NoWriters
    /\ NoDialog

NextReplay ==
    \/ Replay
    \/ GetInput
    \/ Validate
    \/ Render
    \/ Execute
    \/ ProviderReturns
    \/ ProviderFails
    \/ HistoryLoad
    \/ HistoryLoadFails
    \/ HistorySave
    \/ HistorySaveFails

SpecReplay == InitReplay /\ [][NextReplay]_vars

----------------------------------------------------------------------------
(* What the current run is called with, and what its stages compute *)

Started == pc # "idle"
Known == Started /\ Found(commandName)
ThisCommand == Find(commandName)
ExpectedInput == AcquireInput(options, stdin)
ExpectedValidation ==
    validateParams(ThisCommand.prompt, InitialValues(options, ExpectedInput),
                   ThisCommand.params)
ExpectedRender ==
    render(ThisCommand.prompt, ExpectedValidation.values, ThisCommand.params)

IsPrefix(a, b) == Len(a) <= Len(b) /\ SubSeq(b, 1, Len(a)) = a

----------------------------------------------------------------------------
(* Claims about CommandRunner.run *)

\* C1: a run with dryRun set never calls provider.executePrompt and never
\* appends a history entry, whatever the command, input and params; when
\* validation and rendering succeed it returns the empty string.
C1_DryRunNeverExecutes ==
    (Started /\ options.dryRun) =>
        /\ calls = 0
        /\ pc \notin {"executing", "recording", "saving"}
        /\ historyFile = prevFile
        /\ (pc = "done" /\ Found(commandName))
              => ((ExpectedValidation.outcome.ok /\ ExpectedRender.ok)
                     => result = Returned(<<>>))

C1_Witness ==
    /\ pc = "done"
    /\ options.dryRun
    /\ stages = <<"Resolving", "Input", "Validating", "Rendering", "DryRunTerminal", "Done">>
    /\ prompt # <<>>
    /\ result = Returned(<<>>)

\* C2: when the provider call of a non-dry run succeeded, the run returns
\* the provider's response even if appending the history entry failed.
C2_RecordingFailureNotRaised ==
    (pc = "done" /\ response \in Responses) => result = Returned(response)

CompleteRuns ==
    {<<"Resolving", "Failed">>,
     <<"Resolving", "Input", "Validating", "Failed">>,
     <<"Resolving", "Input", "Validating", "Rendering", "Failed">>,
     <<"Resolving", "Input", "Validating", "Rendering", "DryRunTerminal", "Done">>,
     <<"Resolving", "Input", "Validating", "Rendering", "Executing", "Failed">>,
     <<"Resolving", "Input", "Validating", "Rendering", "Executing", "Done">>,
     <<"Resolving", "Input", "Validating", "Rendering", "Executing", "Recording", "Done">>,
     <<"Resolving", "Input", "Validating", "Rendering", "Executing", "Recording", "Failed">>}

\* C3: a run passes through Resolving, input acquisition, Validating,
\* Rendering, then the dry-run terminal or Executing followed by Recording;
\* a failure ends the run with no later stage; executePrompt is called at
\* most once, and only after validation and rendering both succeeded.
C3_StageOrder ==
    /\ \E full \in CompleteRuns : IsPrefix(stages, full)
    /\ (pc = "done" /\ stages # <<>>) => stages \in CompleteRuns
    /\ calls = Cardinality({i \in DOMAIN stages : stages[i] = "Executing"})
    /\ calls <= 1
    /\ calls = 1 =>
          (Found(commandName) /\ ExpectedValidation.outcome.ok /\ ExpectedRender.ok)
    /\ (pc = "done" /\ Known /\ stages # <<>>) =>
          /\ result.ok <=> stages[Len(stages)] = "Done"
          /\ ~ExpectedValidation.outcome.ok =>
                stages = <<"Resolving", "Input", "Validating", "Failed">>
          /\ (ExpectedValidation.outcome.ok /\ ~ExpectedRender.ok) =>
                stages = <<"Resolving", "Input", "Validating", "Rendering", "Failed">>

C3_Witness ==
    /\ pc = "done"
    /\ calls = 1
    /\ stages = <<"Resolving", "Input", "Validating", "Rendering", "Executing",
                  "Recording", "Done">>

MissingRequired(key) ==
    /\ key \in DOMAIN ThisCommand.params
    /\ ThisCommand.params[key].required
    /\ Get(options.params, key) \in {Undefined, Null}
    /\ ThisCommand.params[key].default = Undefined

OldEntries == {prevFile.log[i] : i \in DOMAIN prevFile.log}
NewEntries == {historyFile.log[i] : i \in DOMAIN historyFile.log} \ OldEntries

AppendsOnlyAfterSuccess ==
    /\ historyFile # prevFile =>
          /\ pc = "done"
          /\ calls = 1
          /\ response \in Responses
          /\ result = Returned(response)
          /\ ~options.dryRun
          /\ historyConfig.enabled
    /\ (pc = "done" /\ (options.dryRun \/ ~result.ok \/ ~historyConfig.enabled))
          => historyFile = prevFile

Recorded == pc = "done" /\ Known /\ result.ok /\ ~options.dryRun /\ historyConfig.enabled

HoldsThisRun(entry) ==
    /\ entry.command = commandName
    /\ entry.prompt = ExpectedRender.text
    /\ entry.response = result.text

\* C5 as claimed: the log changes only after executePrompt returned in that
\* run; a dry run, a failed run and a run with history disabled add
\* nothing; a successful non-dry run with history enabled adds exactly one
\* entry, with the run's command name, rendered prompt and response, and
\* leaves the existing entries as they were.
C5_ExactlyOneEntry ==
    /\ AppendsOnlyAfterSuccess
    /\ Recorded =>
          /\ Cardinality(NewEntries) = 1
          /\ \A entry \in NewEntries : HoldsThisRun(entry)
          /\ IsPrefix(Tail(historyFile.log), prevFile.log)

\* C5 amended: as claimed, except that the successful run adds its one
\* entry when maxEntries >= 1 and leaves the log empty when maxEntries is
\* 0; the entries kept from before are unaltered and in their old order
\* (older ones may be dropped, never changed).
C5_OneEntryUnderCeiling ==
    /\ AppendsOnlyAfterSuccess
    /\ (Recorded /\ historyConfig.maxEntries >= 1) =>
          /\ Cardinality(NewEntries) = 1
          /\ HoldsThisRun(historyFile.log[1])
          /\ historyFile.log[1] \notin OldEntries
          /\ IsPrefix(Tail(historyFile.log), prevFile.log)
    /\ (Recorded /\ historyConfig.maxEntries = 0) => historyFile.log = <<>>

C5_Witness ==
    /\ Recorded
    /\ Len(prevFile.log) = 1
    /\ Len(historyFile.log) = 2
    /\ historyFile.log[2] = prevFile.log[1]
    /\ historyFile.log[1].command = commandName

\* C7: running a name that is not configured fails with the user error
\* "Command '<name>' not found" and the hint to list the commands; nothing
\* is validated, rendered, sent or recorded, and the CLI front end exits
\* with a non-zero status.
C7_UnknownCommand ==
    (Started /\ ~Found(commandName)) =>
        /\ pc = "done"
        /\ result = UserError(<<"Command '", commandName, "' not found">>,
                              <<"Run \"aiq list\" to see available commands">>)
        /\ stages \in {<<>>, <<"Resolving", "Failed">>}
        /\ values = NoValues
        /\ prompt = <<>>
        /\ calls = 0
        /\ historyFile = prevFile
        /\ caller = "cli" => exitCode # 0

C7_Witness ==
    /\ pc = "done"
    /\ commandName = "frobnicate"
    /\ caller = "cli"
    /\ exitCode = 1
    /\ result.name = "UserError"

\* C8: when validateParams fails, the value map is exactly as it was before
\* the call, also when parameters examined earlier had been coerced.
C8_FailedValidationKeepsValues ==
    (pc = "done" /\ Known /\ ~ExpectedValidation.outcome.ok)
        => values = InitialValues(options, input)

NoInputSupplied ==
    /\ Falsy(options.input)
    /\ getStdinInput(stdin) = <<>>
    /\ (INPUT \in DOMAIN ThisCommand.params => ThisCommand.params[INPUT].default = Undefined)

\* C9: when the template contains {input} and no input is supplied (no
\* explicit input, nothing piped, no declared default for input), the run
\* fails with 'No input provided' and executePrompt is not called.  Stated
\* for the runs whose parameters pass validation.
C9_MissingInputFails ==
    (Known /\ HasInputPlaceholder(ThisCommand.prompt) /\ NoInputSupplied
           /\ ExpectedValidation.outcome.ok)
        => /\ calls = 0
           /\ pc = "done" => result = UserError(<<"No input provided">>, <<>>)

----------------------------------------------------------------------------
(* Claims about HistoryManager.add *)

Smaller(a, b) == IF a <= b THEN a ELSE b

----------------------------------------------------------------------------
(* Claims about TemplateEngine.render *)

SuppliedInput == Get(values, INPUT)
HasSuppliedInput == SuppliedInput.k = "string" /\ SuppliedInput.v # <<>>
Substituted == ReplaceAll(callTemplate, values, callParams)

\* C10 as claimed: for a template without {input} and a non-empty input,
\* render returns the substituted template, a blank line and the input;
\* for a template with {input} the input is not appended.
C10_AppendsAfterBlankLine ==
    (pc = "returned" /\ Substituted.ok) =>
        /\ (~HasInputPlaceholder(callTemplate) /\ HasSuppliedInput) =>
              result = Returned(Substituted.text \o <<"\n", "\n">> \o SuppliedInput.v)
        /\ HasInputPlaceholder(callTemplate) =>
              result = Returned(Trim(Substituted.text))

\* C10 amended: when the substitution succeeds, for a template without
\* {input} and a non-empty input render returns the substituted template
\* trimmed, a blank line and the input, the whole trimmed again (a blank
\* substituted template leaves the input alone, a blank input leaves the
\* template alone); for a template with {input} nothing is appended: the
\* result is the trimmed substituted template.
C10_AppendsTrimmed ==
    (pc = "returned" /\ Substituted.ok) =>
        /\ (~HasInputPlaceholder(callTemplate) /\ HasSuppliedInput) =>
              /\ result = Returned(Trim(Trim(Substituted.text) \o <<"\n", "\n">>
                                           \o SuppliedInput.v))
              /\ (Trim(Substituted.text) # <<>> /\ Trim(SuppliedInput.v) = SuppliedInput.v)
                    => result = Returned(Trim(Substituted.text) \o <<"\n", "\n">>
                                             \o SuppliedInput.v)
              /\ Trim(Substituted.text) = <<>>
                    => result = Returned(Trim(SuppliedInput.v))
              /\ Trim(SuppliedInput.v) = <<>>
                    => result = Returned(Trim(Substituted.text))
        /\ HasInputPlaceholder(callTemplate) =>
              result = Returned(Trim(Substituted.text))

C10_Witness ==
    /\ pc = "returned"
    /\ callTemplate = <<"{", "x", "}", " ">>
    /\ SuppliedInput = Str(<<"in">>)
    /\ result = Returned(<<"v", "\n", "\n", "in">>)

\* The placeholders of the template handed to render, and for each key the
\* value the claimed priority gives it.
CallPlaceholders == Placeholders(callTemplate, 1)
HasValue(key) == Get(values, key) \notin {Undefined, Null}
HasDefault(key) == key \in DOMAIN callParams /\ callParams[key].default # Undefined
IsRequired(key) == key \in DOMAIN callParams /\ callParams[key].required
Resolvable(key) == HasValue(key) \/ HasDefault(key) \/ (key # INPUT /\ ~IsRequired(key))
Resolved(key) ==
    IF HasValue(key) THEN StringOf(Get(values, key))
    ELSE IF HasDefault(key) THEN StringOf(callParams[key].default)
    ELSE <<>>
WithResolved ==
    Replaced(callTemplate, CallPlaceholders,
             [m \in 1..Len(CallPlaceholders) |-> Returned(Resolved(CallPlaceholders[m].key))],
             1, 1)

\* C11: render replaces every occurrence of every placeholder key by the
\* value in values when it is defined and non-null, else by the declared
\* default when there is one, else (for a key other than input that is not
\* declared required) by the empty text; the text so obtained, with the
\* input appended when the template has no {input}, and trimmed, is the
\* result.
C11_ResolutionPriority ==
    (pc = "returned" /\ \A m \in 1..Len(CallPlaceholders) :
                            Resolvable(CallPlaceholders[m].key)) =>
        result = Returned(
            IF ~HasInputPlaceholder(callTemplate) /\ HasSuppliedInput
            THEN Trim(AppendInput(WithResolved, values))
            ELSE Trim(WithResolved))

\* render("{x}{x}", {x: "v", input: ""}, {x: {default: "d"}}) = "vv"
C11_Witness ==
    /\ pc = "returned"
    /\ callTemplate = <<"{", "x", "}", "{", "x", "}">>
    /\ Get(values, <<"x">>) = Str(<<"v">>)
    /\ HasDefault(<<"x">>)
    /\ result = Returned(<<"v", "v">>)

----------------------------------------------------------------------------
(* Claims about TemplateEngine.validateParams called directly *)

\* The map handed to the call, the effective value of a parameter in it,
\* and the placeholders validated before a key.
HandedIn == options.params
Effective(key) ==
    IF Get(HandedIn, key) \in {Undefined, Null} THEN callParams[key].default
    ELSE Get(HandedIn, key)
NumberKeys ==
    {k \in DOMAIN callParams :
        /\ Includes(extractParams(callTemplate), k)
        /\ callParams[k].type = "number"
        /\ Effective(k) # Undefined}
KeysBefore(key) ==
    LET names == extractParams(callTemplate)
        i == CHOOSE j \in 1..Len(names) : names[j] = key
    IN SubSeq(names, 1, i - 1)
ReachedBy(key) == ValidateFrom(KeysBefore(key), HandedIn, callParams).outcome
MustBeNumber(key) ==
    UserError(<<"Parameter '">> \o key \o <<"' must be a number">>,
              <<"You provided: ">> \o StringOf(Effective(key)))

\* C12 as claimed: for a number parameter the template refers to,
\* validateParams fails with the type-mismatch error reporting the literal
\* whenever the effective value is no number, and otherwise leaves the
\* coerced number in the map.
C12_NumberCoercion ==
    pc = "validated" =>
        \A k \in NumberKeys :
            IF ToNumber(Effective(k)) = NaN
            THEN result = MustBeNumber(k)
            ELSE Get(values, k) = ToNumber(Effective(k))

\* C12 amended: as claimed when no placeholder before this one fails
\* validation; when one does, its error is raised and the entry of this
\* parameter is left as it was handed in.
C12_NumberCoercionWhenReached ==
    pc = "validated" =>
        \A k \in NumberKeys :
            IF ~ReachedBy(k).ok
            THEN result = ReachedBy(k) /\ Get(values, k) = Get(HandedIn, k)
            ELSE IF ToNumber(Effective(k)) = NaN
            THEN result = MustBeNumber(k) /\ Get(values, k) = Get(HandedIn, k)
            ELSE Get(values, k) = ToNumber(Effective(k))

\* "42.0" is coerced to the number 42 after the placeholder before it
\* passed validation.
C12_Witness ==
    /\ pc = "validated"
    /\ callTemplate = <<"{", "s", "}", " ", "{", "n", "}">>
    /\ <<"s">> \in DOMAIN callParams
    /\ Get(HandedIn, <<"n">>) = Str(<<"42.0">>)
    /\ Get(values, <<"n">>) = Num("42")
    /\ result.ok

----------------------------------------------------------------------------
(* Claims about the parameters of a run that are restricted to choices *)

\* The parameters with declared choices the run's template refers to, the
\* effective value of each in the map handed to validation, and the
\* outcome of validating the placeholders before it.
RunHandedIn == InitialValues(options, ExpectedInput)
Validated == Known /\ pc \notin {"input", "validate"}
ChoiceKeys ==
    {k \in DOMAIN ThisCommand.params :
        /\ Includes(extractParams(ThisCommand.prompt), k)
        /\ ThisCommand.params[k].hasChoices}
RunEffective(k) ==
    IF Get(RunHandedIn, k) \in {Undefined, Null} THEN ThisCommand.params[k].default
    ELSE Get(RunHandedIn, k)
IsChoice(k) == Includes(ThisCommand.params[k].choices, StringOf(RunEffective(k)))
RunReachedBy(k) ==
    LET names == extractParams(ThisCommand.prompt)
        i == CHOOSE j \in 1..Len(names) : names[j] = k
    IN ValidateFrom(SubSeq(names, 1, i - 1), RunHandedIn, ThisCommand.params).outcome
InvalidValue(k) ==
    UserError(<<"Invalid value for '">> \o k \o <<"': ">> \o StringOf(RunEffective(k)),
              <<"Available choices: ">> \o Join(ThisCommand.params[k].choices, ", "))
FailedInValidation(err) ==
    /\ pc = "done"
    /\ result = err
    /\ calls = 0
    /\ stages = <<"Resolving", "Input", "Validating", "Failed">>

\* C13 as claimed: for a parameter with choices the template refers to,
\* validation succeeds only if the text of the effective value is one of
\* the choices; otherwise the run fails with the 'Invalid value' error
\* whose hint lists the choices, and the provider is not called.
C13_ChoicesEnforced ==
    Validated =>
        \A k \in ChoiceKeys : ~IsChoice(k) => FailedInValidation(InvalidValue(k))

\* C13 amended: as claimed for a parameter that has an effective value,
\* when no placeholder before it fails validation and, if it is a number
\* parameter, its value parses as a number; an earlier failure or the
\* type mismatch is raised instead, and a parameter without an effective
\* value is not checked against its choices.  In every failing case the
\* provider is not called.
C13_ChoicesEnforcedWhenReached ==
    Validated =>
        \A k \in ChoiceKeys :
            IF ~RunReachedBy(k).ok
            THEN FailedInValidation(RunReachedBy(k))
            ELSE IF RunEffective(k) = Undefined
            THEN ~ThisCommand.params[k].required =>
                    ValidateFrom(<<k>>, RunHandedIn, ThisCommand.params).outcome.ok
            ELSE IF ThisCommand.params[k].type = "number" /\ ToNumber(RunEffective(k)) = NaN
            THEN FailedInValidation(
                    UserError(<<"Parameter '">> \o k \o <<"' must be a number">>,
                              <<"You provided: ">> \o StringOf(RunEffective(k))))
            ELSE IF ~IsChoice(k)
            THEN FailedInValidation(InvalidValue(k))
            ELSE ValidateFrom(<<k>>, RunHandedIn, ThisCommand.params).outcome.ok

\* pick --kind a --n 42.0: the value parses as the number 42 but its text
\* is not one of the choices.
C13_Witness ==
    /\ commandName = "pick"
    /\ Get(options.params, <<"n">>) = Str(<<"42.0">>)
    /\ FailedInValidation(
          UserError(<<"Invalid value for '", "n", "': ", "42.0">>,
                    <<"Available choices: ", "42", ", ", "7">>))

----------------------------------------------------------------------------
(* Claims about the provider registry *)

\* The register calls among the first n logged calls that no clear call
\* followed, those of them made for an identifier in any letter case, and
\* the last of these.
LastClear(n) ==
    LET S == {i \in 1..n : registered[i].op = "clear"}
    IN IF S = {} THEN 0 ELSE CHOOSE i \in S : \A j \in S : j <= i
RegistrationsOf(id, n) ==
    {i \in (LastClear(n) + 1)..n : ToLowerCase(registered[i].name) = ToLowerCase(id)}
LastRegistration(id, n) ==
    registered[CHOOSE i \in RegistrationsOf(id, n) :
                  \A j \in RegistrationsOf(id, n) : j <= i]
AllIds == RegisteredNames \cup RequestedIds
Answered == request.made /\ RegistrationsOf(request.id, Len(registered)) # {}
Refused == request.made /\ RegistrationsOf(request.id, Len(registered)) = {}

\* C14: after any sequence of register calls, has, getClass and
\* getMetadata for an identifier in any letter case resolve to the class of
\* the last register call made for it in any letter case (to nothing when
\* there was none), list holds the identifier once, and a get call
\* constructs an instance of that class.
C14_LastRegistrationWins ==
    /\ \A id \in AllIds :
          LET n == Len(registered) IN
          IF RegistrationsOf(id, n) = {}
          THEN ~has(id) /\ getClass(id) = "" /\ ~getMetadata(id).present
          ELSE /\ has(id)
               /\ getClass(id) = LastRegistration(id, n).class
               /\ getMetadata(id) =
                     MetadataOf(providerMetadata, LastRegistration(id, n).class)
               /\ Cardinality({i \in DOMAIN list :
                                  ToLowerCase(list[i]) = ToLowerCase(id)}) = 1
    /\ (Answered) =>
          /\ result.ok
          /\ instance # <<>>
          /\ instance[1].class = LastRegistration(request.id, Len(registered)).class

\* "Gemini" was registered for one class and then "gemini" for another:
\* GEMINI resolves to the second.
C14_Witness ==
    /\ Len(registered) >= 2
    /\ registered[1].name = <<"Gemini">>
    /\ registered[2].name = <<"gemini">>
    /\ registered[1].class # registered[2].class
    /\ getClass(<<"GEMINI">>) = registered[2].class
    /\ Answered /\ request.id = <<"GEMINI">>

\* C15: the warnings logged are exactly those of the register calls whose
\* identifier, in lower case, was a key of the registry already.
C15_WarnsOnCollision ==
    LET collisions == SelectSeq(registered, LAMBDA r : r.op = "register" /\ r.collided)
    IN warnings = [i \in 1..Len(collisions) |-> collisions[i].name]

\* C16: get for a registered identifier constructs the instance with a
\* configuration whose keys are those of the class's default configuration,
\* of the partial configuration and name; name is the requested
\* identifier, every other key has the partial configuration's value when
\* it is present there and the default's otherwise; the registered
\* metadata is left as it was.
C16_MergedConfiguration ==
    (Answered) =>
        LET class == LastRegistration(request.id, Len(registered)).class
            default == MetadataOf(request.metadata, class).defaultConfig
            config == instance[1].config
        IN /\ DOMAIN config = DOMAIN default \cup DOMAIN request.config \cup {<<"name">>}
           /\ \A k \in DOMAIN config :
                 config[k] = IF k = <<"name">> THEN Str(request.id)
                             ELSE IF k \in DOMAIN request.config THEN request.config[k]
                             ELSE default[k]
           /\ providerMetadata = request.metadata

\* get("GEMINI", {name: "other", model: "m2"}) on the bundled provider:
\* the model is the partial one, the credential the default, the name the
\* identifier asked for.
C16_Witness ==
    /\ Answered
    /\ request.id = <<"GEMINI">>
    /\ request.config = Put(One(<<"name">>, Str(<<"other">>)), <<"model">>, Str(<<"m2">>))
    /\ instance[1].class = "GeminiProvider"
    /\ getMetadata(request.id).present
    /\ instance[1].config[<<"name">>] = Str(<<"GEMINI">>)
    /\ instance[1].config[<<"model">>] = Str(<<"m2">>)
    /\ instance[1].config[<<"apiKey">>] = DefaultProviderConfig.apiKey

\* C17: get for an identifier that is not registered raises the 'not
\* found' error whose message lists the registered identifiers, or 'none'
\* when there are none; no instance is constructed and the registry is
\* left as it was.
C17_UnknownProvider ==
    (Refused) =>
        /\ result =
              Error(<<"Provider \"">> \o request.id
                        \o <<"\" not found. Available providers: ">>
                        \o (IF list = <<>> THEN <<"none">> ELSE Join(list, ", ")))
        /\ instance = request.instance
        /\ providers = request.providers
        /\ providerMetadata = request.metadata

\* get("openai") with two other identifiers registered
C17_Witness ==
    /\ Refused
    /\ request.id = <<"openai">>
    /\ Len(list) = 1
    /\ result.message = <<"Provider \"", "openai",
                           "\" not found. Available providers: ", "gemini">>

----------------------------------------------------------------------------
(* Claims about the bundled provider *)

\* The run ended with the backend's answer turned into an error: nothing
\* was returned and the history log is as the run found it.
AnsweredRun == pc = "done" /\ backend.kind = "http"
NothingReturned ==
    /\ ~result.ok
    /\ response = <<>>
    /\ historyFile = prevFile
    /\ stages[Len(stages)] = "Failed"

\* C18 as claimed: when the backend answers with status 429 the run fails
\* with the user error "Rate limit exceeded" and the hint "Wait a moment
\* and try again"; no response is returned and no history entry appended.
C18_RateLimitExceeded ==
    (AnsweredRun /\ backend.status = 429) =>
        /\ result = UserError(<<"Rate limit exceeded">>, <<"Wait a moment and try again">>)
        /\ NothingReturned

\* C18 amended: as claimed when the body of the 429 response carries no
\* structured error message; when it does, that message is the error's
\* message and the hint is the same.
C18_RateLimitMessageOrBody ==
    (AnsweredRun /\ backend.status = 429) =>
        /\ result =
              UserError(IF backend.body.kind = "error" /\ backend.body.text # <<>>
                        THEN backend.body.text
                        ELSE <<"Rate limit exceeded">>,
                        <<"Wait a moment and try again">>)
        /\ NothingReturned

\* A 429 without a JSON body, history enabled with an older log in place
C18_Witness ==
    /\ AnsweredRun
    /\ backend = HttpAnswer(429, NotJson)
    /\ historyConfig.enabled
    /\ historyFile.log # <<>>
    /\ calls = 1
    /\ result = UserError(<<"Rate limit exceeded">>, <<"Wait a moment and try again">>)

\* The hints that point to the credential, to the model name, to rate
\* limiting and to a transient service failure.
CredentialHints ==
    {<<"Verify your API key">>, <<"Check your GEMINI_API_KEY environment variable">>}
ModelHints ==
    {<<"Verify the model name">>, StatusDefault(providerConfig, 404).hint}
RateLimitHints ==
    {<<"You're sending too many requests. Wait a bit">>, <<"Wait a moment and try again">>}
TransientHints ==
    {<<"Gemini is having issues. Try again later">>,
     <<"The service may be temporarily down. Try again later">>}

\* C19: whenever the response carries a structured error, the run fails
\* with a user error whose hint is the remediation of the error's code:
\* the credential for 401, the model name for 404, rate limiting for 429, a
\* transient service failure for every code from 500 to 599.
C19_CodeSpecificHint ==
    (AnsweredRun /\ backend.body.kind = "error") =>
        /\ result.name = "UserError"
        /\ backend.body.code = 401 => result.hint \in CredentialHints
        /\ backend.body.code = 404 => result.hint \in ModelHints
        /\ backend.body.code = 429 => result.hint \in RateLimitHints
        /\ backend.body.code \in 500..599 => result.hint \in TransientHints

\* C20: a provider whose configuration validateConfig rejects (credential
\* absent, empty or a placeholder, model absent) gets the user error, and
\* no request of that provider has reached the network.
C20_RejectedConfigNeverFetches ==
    ~validateConfig(providerConfig).ok =>
        /\ validateConfig(providerConfig).name = "UserError"
        /\ fetches = 0

----------------------------------------------------------------------------
(* C21: whatever fetch yields, GeminiProvider.executePrompt fails only with *)
(* a user-facing error                                                      *)

\* The run called the provider and the provider raised.
ProviderRaised ==
    /\ pc = "done"
    /\ Len(stages) >= 2
    /\ stages[Len(stages) - 1] = "Executing"
    /\ stages[Len(stages)] = "Failed"

\* The run called the provider and the provider returned a text.
ProviderReturned == backend.kind # "none" /\ ~ProviderRaised

ConnectionRefused == <<"Cannot connect to Gemini API">>
TimedOut == <<"Request to Gemini timed out">>
GenericFailure == <<"API request failed: ">>

\* C21: every failure of executePrompt is a UserError; a rejected fetch is
\* reported as connection refused, as timed out or as a generic failure,
\* by the code the rejection carries, with three different messages; a
\* non-success status, a body that is no JSON document, a document without
\* candidates and a candidate without content fail too; a text is returned
\* only for a success status, no error field and at least one candidate.
C21_FailuresAreUserErrors ==
    /\ ProviderRaised =>
          /\ result.name = "UserError"
          /\ backend.kind = "transport" =>
                /\ backend.code = "ECONNREFUSED" <=> result.message = ConnectionRefused
                /\ backend.code = "ETIMEDOUT" <=> result.message = TimedOut
                /\ backend.code \notin {"ECONNREFUSED", "ETIMEDOUT"}
                      <=> result.message = GenericFailure \o backend.message
    /\ (pc = "done" /\ backend.kind = "transport") => ProviderRaised
    /\ (pc = "done" /\ backend.kind = "http"
          /\ (~Ok(backend.status) \/ backend.body.kind # "candidates"))
         => ProviderRaised
    /\ ProviderReturned =>
          /\ backend.kind = "http"
          /\ Ok(backend.status)
          /\ backend.body.kind = "candidates"
          /\ response = Trim(backend.body.text)

\* A run whose request was rejected without a code, and so failed with the
\* generic user-facing error.
C21_Witness ==
    /\ ProviderRaised
    /\ backend.kind = "transport"
    /\ backend.code = ""
    /\ result.name = "UserError"
    /\ result.message = GenericFailure \o backend.message

----------------------------------------------------------------------------
(* Claims about the configuration and the commands it holds *)

UniqueNames(commands) ==
    \A i, j \in 1..Len(commands) : commands[i].name = commands[j].name => i = j

\* C22: after any sequence of add, rename and remove, in one process after
\* the other, no two commands of the configuration share a name, in memory
\* and in the saved file; adding a command under a name that exists fails
\* with the 'already exists' user error and leaves the command list and the
\* saved file as they were.
C22_CommandNamesUnique ==
    /\ cliConfig.present => UniqueNames(cliConfig.commands)
    /\ cliConfig.present =>
          (configFile.exists /\ configFile.json /\ UniqueNames(configFile.doc.commands))
    /\ (op.kind = "add" /\ \E i \in 1..Len(op.before) : op.before[i].name = op.name) =>
          /\ op.outcome = AlreadyExists(op.name)
          /\ cliConfig.commands = op.before
          /\ configFile = op.beforeFile

\* An add under an existing name, refused, in a process that follows one
\* that gave a command the name draft.
C22_Witness ==
    /\ ops > 0
    /\ op.kind = "add"
    /\ \E i \in 1..Len(op.before) : op.before[i].name = op.name
    /\ op.outcome = AlreadyExists(op.name)
    /\ \E i \in 1..Len(cliConfig.commands) : cliConfig.commands[i].name = "draft"

\* load told the entry point that there is no configuration.
LoadReturnedNull == cpc # "start" /\ ~cliConfig.present

\* C27: once load has returned null, every later load and get of the same
\* process yields no configuration either: a document validate rejects is
\* not kept in the manager.
C27_RejectedDocumentNotKept ==
    (LoadReturnedNull /\ observed.seen) => ~observed.value.present

----------------------------------------------------------------------------
(* Claims about the test command *)

\* The provider was called or the history log was written.
Sent == calls > 0 \/ fetches > 0 \/ backend # NoAnswer
Appended == historyFile # prevFile

\* C23: testCommand shows the rendered prompt first; the provider is called
\* and the history log written only after the user answered 'y' or 'Y' to
\* the prompt that was shown; after any other answer, for an unknown
\* command and when rendering fails there is no provider call and no
\* history entry.
C23_SendsOnlyAfterConfirmation ==
    /\ (Sent \/ Appended \/ pc # "idle") =>
          /\ test.pc = "confirmed"
          /\ test.answer \in {<<"y">>, <<"Y">>}
          /\ Found(test.name)
          /\ test.shown = render(Find(test.name).prompt,
                                 TestValues(Find(test.name), test.input),
                                 Find(test.name).params).text
    /\ test.pc \in {"none", "shown", "declined", "failed"} =>
          (~Sent /\ ~Appended /\ pc = "idle")
    /\ (test.pc = "declined" => test.answer \notin {<<"y">>, <<"Y">>})
    /\ (test.pc = "failed" =>
          (~Found(test.name)
             \/ ~render(Find(test.name).prompt, TestValues(Find(test.name), test.input),
                        Find(test.name).params).ok))

\* A test confirmed with 'Y' whose run called the provider and recorded
\* the answer.
C23_Witness ==
    /\ test.pc = "confirmed"
    /\ test.answer = <<"Y">>
    /\ pc = "done"
    /\ calls = 1
    /\ Appended

----------------------------------------------------------------------------
(* Claims about the input of a run *)

\* The run has acquired its input.
InputAcquired == pc \notin {"idle", "input"} /\ Len(stages) >= 2 /\ stages[2] = "Input"

\* C24 as stated: an explicit input, whatever it is, is used and keeps the
\* stream unread.
C24_ExplicitInputUsed ==
    (InputAcquired /\ options.input # Undefined) =>
        (input = StringOf(options.input) /\ ~stdin.drained)

\* C24: a run uses a non-empty explicit input and then leaves the stream
\* unread; with no explicit input, or an empty one, it drains a stream that
\* is no terminal to its end and uses the trimmed text; otherwise the input
\* is empty.  Validation starts only after that.
C24_NonEmptyExplicitInputUsed ==
    /\ InputAcquired =>
          IF options.input \notin {Undefined, Str(<<>>)}
          THEN input = StringOf(options.input) /\ ~stdin.drained
          ELSE IF ~stdin.isTTY
          THEN input = Trim(stdin.data) /\ stdin.drained
          ELSE input = <<>> /\ ~stdin.drained
    /\ ~InputAcquired => (~stdin.drained /\ values = NoValues)

\* A run called with an explicit text while a stream is piped in.
C24_Witness ==
    /\ InputAcquired
    /\ options.input = Str(<<"text">>)
    /\ ~stdin.isTTY
    /\ stdin.data = <<" ", "piped", "\n">>
    /\ input = <<"text">>
    /\ ~stdin.drained

----------------------------------------------------------------------------
(* Claims about two processes adding to the same history file *)

BothAdded == \A w \in Writers : writers[w].pc = "done"
Persisted(w) == \E i \in 1..Len(historyFile.log) : historyFile.log[i] = writers[w].entry

\* One add began after the other had ended.
Sequential == \E w \in Writers : writers[w].afterOther

----------------------------------------------------------------------------
(* Claims about what a run leaves alone *)

\* The current run has written an entry to the history log.
RunRecorded ==
    /\ pc = "done"
    /\ result.ok
    /\ historyFile # prevFile
    /\ historyFile.log # <<>>

\* C26: a run never changes the options.params object of its caller; type
\* coercion works on run's own value map.  From the call to the end of the
\* run, failed or not, options.params stays as supplied, and the history
\* entry the run records carries exactly these parameters: uncoerced and
\* without the input key.
C26_ParamsNeverMutated ==
    /\ [][runs' = runs => options' = options]_vars
    /\ [](RunRecorded =>
            /\ historyFile.log[1].params = options.params
            /\ INPUT \notin DOMAIN historyFile.log[1].params)

\* A recorded run whose number parameter was coerced in the value map and
\* is still the text the caller supplied in options.params and in the entry.
C26_Witness ==
    /\ RunRecorded
    /\ commandName = "summarize"
    /\ options.params = One(<<"maxWords">>, Str(<<"42">>))
    /\ values[<<"maxWords">>] = Num("42")
    /\ historyFile.log[1].params = One(<<"maxWords">>, Str(<<"42">>))

\* C28: add removes entries only by the ceiling: whatever happened when the
\* log was read, the entries that were persisted before the run and that
\* the ceiling leaves room for are persisted after it, below the new entry.
C28_OnlyCeilingRemoves ==
    RunRecorded =>
        \A i \in 1..Len(prevFile.log) :
            i + 1 <= historyConfig.maxEntries =>
                /\ Len(historyFile.log) >= i + 1
                /\ historyFile.log[i + 1] = prevFile.log[i]

----------------------------------------------------------------------------
(* Claims about validateParams called twice *)

\* The map the first, successful call left behind.
FirstValidated == validateParams(callTemplate, options.params, callParams).values

\* C29: after a successful validateParams, a second call on the resulting
\* map succeeds too and leaves the map as the first call left it.
C29_IdempotentOnSuccess ==
    pc = "revalidated" => (result.ok /\ values = FirstValidated)

----------------------------------------------------------------------------
(* Claims about the replay of a history entry *)

\* C30: the replay of an entry whose command is still configured sends the
\* provider the prompt recorded in the entry; the replay of an id that is
\* not in the log, of an entry whose command is gone, or with history
\* disabled fails with a user error and calls no provider.
C30_ReplaySendsRecordedPrompt ==
    /\ (replay.pc = "running" /\ calls > 0) => prompt = replay.prompt
    /\ replay.pc = "failed" =>
          /\ replay.outcome.name = "UserError"
          /\ calls = 0 /\ fetches = 0 /\ pc = "idle"
          /\ (~historyConfig.enabled
                \/ ~HasEntry(LoadHistory(historyFile), replay.id)
                \/ ~Found(replay.command))
    /\ replay.pc = "running" =>
          /\ historyConfig.enabled
          /\ Found(replay.command)
          /\ commandName = replay.command
          /\ options.params = replay.params

====
